---- MODULE Spec2Model ----
(***************************************************************************)
(* Scene graph transform cache, per-frame drawable extraction and the      *)
(* GPU-driven culling / draw-command generation / instance gather          *)
(* pipeline of demogine.                                                   *)
(*                                                                         *)
(* Matrices are abstracted to the affine maps x |-> a*x + b over Z_3       *)
(* (a in {1,2}, b in {0,1,2}); the group is non-commutative, so            *)
(* parent * local and local * parent are different products.               *)
(***************************************************************************)
EXTENDS Integers, Sequences, FiniteSets, TLC

(***************************************************************************)
(* Bounds of the model                                                     *)
(***************************************************************************)
MaxObjects == 3
\* number of mutating Scene calls the application makes in one run
MaxCalls == 4

\* values the application passes to the transform setters
\* (Transform::from_translation starts at translation 0, rotation 1, scale 1)
TranslationValues == {1}
RotationValues == {2}
ScaleValues == {2}

\* decomposed node transforms <<translation, rotation, scale>> of imported glTF nodes
GltfNodeTransforms == {<<0, 2, 1>>}

\* scene.models: model id -> primitives, each <<global_index, material>>
SceneModels == << << <<0, 1>>, <<1, 0>> >> >>
ModelIds == 0 .. Len(SceneModels)       \* 0 stands for None

\* capacity of the drawable buffers and of the visibility flags (MAX_DRAWABLES)
MAX_DRAWABLES == 6
\* largest number of drawables the scene yields in one frame
MaxFrameDrawables == 2
\* number of slots of the per-mesh counters and of the draw-command buffer (MAX_MESHES)
MAX_MESHES == 2
\* invocations per workgroup of the culling and gather dispatches
WORKGROUP_SIZE == 2

\* BakedMeshes::meshes, mesh index = position - 1:
\* mesh A has 10 indices and a point box, mesh B has 6 indices and the box [0, 1]
MeshTable ==
    << [index_count |-> 10, first_index |-> 0, vertex_offset |-> 0,
        aabb_min |-> 0, aabb_max |-> 0],
       [index_count |-> 6, first_index |-> 10, vertex_offset |-> 4,
        aabb_min |-> 0, aabb_max |-> 1] >>

\* primitives of the models an application loads: number of indices and of
\* vertices, and the bounding box
BakedPrimitives ==
    { [indices |-> 10, vertices |-> 4, aabb_min |-> 0, aabb_max |-> 0],
      [indices |-> 6, vertices |-> 4, aabb_min |-> 0, aabb_max |-> 1],
      [indices |-> 3, vertices |-> 3, aabb_min |-> 1, aabb_max |-> 2] }
\* largest number of objects spawned from glTF before the last spawn_gltf_scene
MaxGltfObjects == 4

\* largest number of instances in one model group of a group driven directly
MaxGroupInstances == 2
\* initial capacities of the static and the dynamic instance buffer (1024 and 16)
InitialStaticCapacity == 2
InitialDynamicCapacity == 1

\* largest number of objects in the scene the instance manager reads
MaxInstanceObjects == 2

\* largest number of objects in the scene the change-tracking manager reads,
\* and of update_from_scene calls it serves
MaxTrackObjects == 2
MaxFrames == 3
\* InstanceStorageBuffer::INITIAL_CAPACITY (128)
INITIAL_CAPACITY == 2

\* largest number of versions of one shader file
MaxShaderVersions == 4

MaxModels == 2
MaxPrimitivesPerModel == 2
BakedModels == UNION {[1 .. n -> BakedPrimitives] : n \in 1 .. MaxPrimitivesPerModel}
ModelLists == UNION {[1 .. n -> BakedModels] : n \in 0 .. MaxModels}

\* boxes, world matrices and frusta of the frustum test
TestBoxes == {<<0, 0>>, <<1, 1>>, <<0, 1>>, <<0, 2>>}
TestTransforms == {<<a, b>> : a \in {1, 2}, b \in {-3, 0, 1, 3}}
TestFrusta == {<<lo, hi>> \in (0 .. 2) \X (0 .. 2) : lo <= hi}

\* world matrices of the drawables a frame uploads, and the frusta of the camera
\* (an interval <<lo, hi>> stands for the planes x >= lo and x <= hi)
FrameMatrices == {<<1, 0>>, <<1, 2>>}
Frusta == {<<0, 1>>, <<1, 2>>}

VARIABLES
    objects,     \* Scene::objects, the arena: object id = index 1..Len
    drawables,   \* DrawableManager::drawables
    pc,          \* position of the application in the frame loop
    calls,       \* number of mutating Scene calls made so far
    set_this_frame   \* history: ids whose local transform was set in the frame
                     \* under way, kept until the frame has been rendered

sceneVars == <<objects, drawables, pc, calls, set_this_frame>>

VARIABLES
    drawable_count,                  \* drawables.len() of the frame being rendered
    all_drawables,                   \* DrawableBuffers::all_drawables
    visible_drawables,               \* DrawableBuffers::visible_drawables
    frustum_buffer,                  \* DrawCommandGenerator::frustum_buffer
    drawable_visibility_buffer,      \* one flag per drawable slot
    visible_drawables_by_mesh_buffer,\* per-mesh visible counts
    base_offsets_buffer,             \* per-mesh base offsets
    draw_commands_buffer,            \* indexed-indirect draw commands
    draw_commands_count_buffer,      \* number of draw commands
    drawable_local_indices_buffer,   \* per-mesh write cursors of the gather pass
    encoder,                         \* commands recorded for the frame, not yet executed
    cpu,                             \* position of Renderer::render / finish_frame
    done,                            \* invocations of the running compute pass that have finished
    finished,                        \* passes of the frame that have completed, in order
    written_by                       \* per slot of visible_drawables: the invocations that wrote it in this frame

gpuVars == <<drawable_count, all_drawables, visible_drawables, frustum_buffer,
             drawable_visibility_buffer, visible_drawables_by_mesh_buffer,
             base_offsets_buffer, draw_commands_buffer, draw_commands_count_buffer,
             drawable_local_indices_buffer, encoder, cpu, done, finished, written_by>>

VARIABLES
    models_to_bake,   \* the models handed to bake_models
    mesh_buffer,      \* MeshBuffers::meshes, and whether it has been created
    test_aabb,        \* AABB <<min, max>> under the frustum test
    test_transform,   \* world matrix of the box under test
    test_frustum,     \* frustum <<lo, hi>> of the test
    test_visible      \* "visible" or "culled" once tested, "untested" before

assetVars == <<models_to_bake, mesh_buffer>>
testVars == <<test_aabb, test_transform, test_frustum, test_visible>>

VARIABLES
    unit_transform,      \* one Transform, driven through its public methods
    local_matrix_read    \* the last get_local_matrix call: the flags it found and
                         \* the matrix it returned
unitVars == <<unit_transform, local_matrix_read>>

VARIABLES
    adapter_features,   \* wgpu::Adapter::features(), the optional ones used
    config,             \* RenderConfig, leaked by Renderer::new
    drawn               \* the instances the last geometry pass has drawn
renderVars == <<adapter_features, config, drawn>>

VARIABLES
    byte_upload   \* one write_drawables_at_offset call seen at the level of bytes
layoutVars == <<byte_upload>>

VARIABLES
    scene_models,        \* Scene::models: per SceneModel the document and mesh it was converted from
    gltf_mesh_to_model,  \* Scene::gltf_mesh_to_model: mesh index -> model id, 0 when absent
    gltf_objects         \* the objects spawned from glTF nodes: the node's document
                         \* and mesh, and Object3D::model_id (0 stands for None)

importVars == <<scene_models, gltf_mesh_to_model, gltf_objects>>

VARIABLES
    inst_objects,    \* the objects of the scene as InstanceManager reads them
    static_group,    \* InstanceManager::static_group
    dynamic_group    \* InstanceManager::dynamic_group

instancingVars == <<inst_objects, static_group, dynamic_group>>

VARIABLES
    track_objects,    \* the objects of the scene as the change-tracking manager reads them
    tracker,          \* rendering::instance_manager::InstanceManager
    update_strategy,  \* the strategy the last update_from_scene selected
    uploads           \* the Queue::write_buffer calls of the last update_from_scene:
                      \* start index and instances of each

trackingVars == <<track_objects, tracker, update_strategy, uploads>>

VARIABLES
    shader_files,     \* per shader of the cache its file: version of the text, and
                      \* whether that text compiles
    pipeline_cache,   \* PipelineCache::pipelines: per pipeline id the installed
                      \* pipeline, named by the version of the text it was compiled from
    receiver,         \* the mpsc channel from the watcher thread to ShaderLoader::receiver
    watcher_events,   \* debounced file events not yet handled by the watcher callback
    loader_pc,        \* "idle", or "draining" inside load_pending_shaders
    last_compiled,    \* history: per pipeline id the last pipeline the watcher compiled, 0 if none
    drained           \* history: the messages received by the current or last load_pending_shaders

shaderVars == <<shader_files, pipeline_cache, receiver, watcher_events, loader_pc,
                last_compiled, drained>>

\* the state of the glTF importer, of the instance managers and of the shader loader
restVars == <<importVars, instancingVars, trackingVars, shaderVars>>

(***************************************************************************)
(* Matrices (glam::Mat4, abstracted)                                       *)
(***************************************************************************)
Mat4Identity == <<1, 0>>

\* Mat4 * Mat4: (p * l)(x) = p(l(x))
MatMul(p, l) == <<(p[1] * l[1]) % 3, (p[1] * l[2] + p[2]) % 3>>

\* Mat4::from_scale_rotation_translation
FromScaleRotationTranslation(scale, rotation, translation) ==
    <<(rotation * scale) % 3, translation % 3>>

(***************************************************************************)
(* Transform                                                               *)
(***************************************************************************)
\* Transform::from_translation
TransformFromTranslation(t) ==
    [translation |-> t, rotation |-> 1, scale |-> 1,
     local_matrix |-> Mat4Identity, world_matrix |-> Mat4Identity,
     local_dirty |-> TRUE, world_dirty |-> TRUE,
     has_changed_since_last_update |-> TRUE]

\* Transform::invalidate_world
InvalidateWorld(tr) == [tr EXCEPT !.world_dirty = TRUE]

\* Transform::invalidate_local
InvalidateLocal(tr) ==
    [tr EXCEPT !.local_dirty = TRUE, !.world_dirty = TRUE,
               !.has_changed_since_last_update = TRUE]

\* variant: the dirty flag is cleared without recomputing the matrix
GetLocalMatrix_NoRecompute(tr) ==
    IF tr.local_dirty THEN InvalidateWorld([tr EXCEPT !.local_dirty = FALSE]) ELSE tr

\* variant: the matrix is recomputed but local_dirty stays set
GetLocalMatrix_KeepsLocalFlag(tr) ==
    IF tr.local_dirty
    THEN InvalidateWorld(
           [tr EXCEPT !.local_matrix =
                         FromScaleRotationTranslation(tr.scale, tr.rotation, tr.translation)])
    ELSE tr

\* variant: the recomputation leaves the world flag as it finds it
GetLocalMatrix_KeepsWorldFlag(tr) ==
    IF tr.local_dirty
    THEN [tr EXCEPT !.local_matrix =
                       FromScaleRotationTranslation(tr.scale, tr.rotation, tr.translation),
                    !.local_dirty = FALSE]
    ELSE tr

\* Transform::get_local_matrix: the transform after the (lazy) read
GetLocalMatrix(tr) ==
    IF tr.local_dirty
    THEN InvalidateWorld(
           [tr EXCEPT !.local_matrix =
                         FromScaleRotationTranslation(tr.scale, tr.rotation, tr.translation),
                      !.local_dirty = FALSE])
    ELSE tr

\* variant: storing the world matrix does not touch the changed flag
SetWorldMatrix_KeepsChangedFlag(tr, m) ==
    [tr EXCEPT !.world_matrix = m, !.world_dirty = FALSE]

\* variant: storing the world matrix leaves world_dirty set
SetWorldMatrix_KeepsWorldDirty(tr, m) ==
    [tr EXCEPT !.world_matrix = m, !.has_changed_since_last_update = TRUE]

\* Transform::set_world_matrix
SetWorldMatrix(tr, m) ==
    [tr EXCEPT !.world_matrix = m, !.world_dirty = FALSE,
               !.has_changed_since_last_update = TRUE]

\* Transform::set_translation / set_rotation / set_scale / set_transform
SetTranslation(tr, t) == InvalidateLocal([tr EXCEPT !.translation = t])
SetRotation(tr, r) == InvalidateLocal([tr EXCEPT !.rotation = r])
SetScale(tr, s) == InvalidateLocal([tr EXCEPT !.scale = s])
SetTransform(tr, t, r, s) ==
    InvalidateLocal([tr EXCEPT !.translation = t, !.rotation = r, !.scale = s])

\* variant: resetting the changed flag also clears the dirty flags
ResetFlags_ClearsDirty(tr) ==
    [tr EXCEPT !.has_changed_since_last_update = FALSE,
               !.local_dirty = FALSE, !.world_dirty = FALSE]

\* Transform::reset_flags
ResetFlags(tr) == [tr EXCEPT !.has_changed_since_last_update = FALSE]

(***************************************************************************)
(* Object3D and Scene                                                      *)
(***************************************************************************)
\* Object3D::default, with the fields a spawner fills in
NewObject(model_id, enabled) ==
    [transform |-> TransformFromTranslation(0),
     model_id |-> model_id, enabled |-> enabled,
     parent_id |-> 0, child_ids |-> <<>>]

ObjectIds == 1 .. Len(objects)

\* Vec::retain(|&id| id != x)
RECURSIVE Retain(_, _)
Retain(s, x) ==
    IF s = <<>> THEN <<>>
    ELSE IF Head(s) = x THEN Retain(Tail(s), x)
    ELSE <<Head(s)>> \o Retain(Tail(s), x)

Range(s) == {s[i] : i \in 1 .. Len(s)}

\* objects reachable from id through child_ids in one or more steps
RECURSIVE ReachFrom(_, _, _)
ReachFrom(objs, frontier, seen) ==
    LET next == UNION {Range(objs[i].child_ids) : i \in frontier} \ seen
    IN IF next = {} THEN seen ELSE ReachFrom(objs, next, seen \cup next)

Descendants(objs, id) == ReachFrom(objs, {id}, {})

\* the recursion of invalidate_object_hierarchy / update_object_transform_recursive
\* from id never returns when id lies on, or leads into, a cycle of child_ids
Diverges(objs, id) ==
    \E x \in Descendants(objs, id) \cup {id} : x \in Descendants(objs, x)

\* Scene::invalidate_object_hierarchy (terminating case)
RECURSIVE InvalidateObjectHierarchy(_, _), InvalidateChildren(_, _, _)
\* variant: only the object itself is invalidated, the child list is not walked
InvalidateObjectHierarchy_Shallow(objs, id) ==
    [objs EXCEPT ![id].transform = InvalidateWorld(@)]

InvalidateObjectHierarchy(objs, id) ==
    LET objs1 == [objs EXCEPT ![id].transform = InvalidateWorld(@)]
    IN InvalidateChildren(objs1, objs1[id].child_ids, 1)

InvalidateChildren(objs, kids, i) ==
    IF i > Len(kids) THEN objs
    ELSE InvalidateChildren(InvalidateObjectHierarchy(objs, kids[i]), kids, i + 1)

\* Scene::update_object_transform_recursive
RECURSIVE UpdateObjectTransformRecursive(_, _, _), UpdateChildren(_, _, _, _)
\* variant: a clean object ends the descent, its children are not visited
UpdateObjectTransformRecursive_SkipClean(objs, id, parent_world_matrix) ==
    LET tr == objs[id].transform
    IN IF ~tr.world_dirty THEN objs
       ELSE LET read == GetLocalMatrix(tr)
                tr1 == SetWorldMatrix(read, MatMul(parent_world_matrix, read.local_matrix))
                objs1 == [objs EXCEPT ![id].transform = tr1]
            IN UpdateChildren(objs1, objs1[id].child_ids, 1, tr1.world_matrix)

\* variant: the world matrix is recomputed whether or not the object is dirty
UpdateObjectTransformRecursive_Always(objs, id, parent_world_matrix) ==
    LET tr == objs[id].transform
        read == GetLocalMatrix(tr)
        tr1 == SetWorldMatrix(read, MatMul(parent_world_matrix, read.local_matrix))
        objs1 == [objs EXCEPT ![id].transform = tr1]
    IN UpdateChildren(objs1, objs1[id].child_ids, 1, tr1.world_matrix)

UpdateObjectTransformRecursive(objs, id, parent_world_matrix) ==
    LET tr == objs[id].transform
        tr1 == IF tr.world_dirty
               THEN LET read == GetLocalMatrix(tr)
                    IN SetWorldMatrix(read, MatMul(parent_world_matrix, read.local_matrix))
               ELSE tr
        objs1 == [objs EXCEPT ![id].transform = tr1]
    IN UpdateChildren(objs1, objs1[id].child_ids, 1, tr1.world_matrix)

UpdateChildren(objs, kids, i, world_matrix) ==
    IF i > Len(kids) THEN objs
    ELSE UpdateChildren(UpdateObjectTransformRecursive(objs, kids[i], world_matrix),
                        kids, i + 1, world_matrix)

\* Scene::update_transforms: every root, in arena order
RECURSIVE UpdateTransformsFrom(_, _)
UpdateTransformsFrom(objs, i) ==
    IF i > Len(objs) THEN objs
    ELSE IF objs[i].parent_id = 0
         THEN UpdateTransformsFrom(UpdateObjectTransformRecursive(objs, i, Mat4Identity), i + 1)
         ELSE UpdateTransformsFrom(objs, i + 1)

UpdateTransforms(objs) == UpdateTransformsFrom(objs, 1)

\* variant: the child is put at the head of the new parent's child list
Reparent_Prepend(objs, child_id, new_parent_id) ==
    LET old == objs[child_id].parent_id
        objs1 == IF old # 0
                 THEN [objs EXCEPT ![old].child_ids = Retain(@, child_id)]
                 ELSE objs
        objs2 == [objs1 EXCEPT ![child_id].parent_id = new_parent_id]
    IN IF new_parent_id # 0
       THEN [objs2 EXCEPT ![new_parent_id].child_ids = <<child_id>> \o @]
       ELSE objs2

\* variant: the child is not taken out of its old parent's child list
Reparent_NoRetain(objs, child_id, new_parent_id) ==
    LET objs2 == [objs EXCEPT ![child_id].parent_id = new_parent_id]
    IN IF new_parent_id # 0
       THEN [objs2 EXCEPT ![new_parent_id].child_ids = Append(@, child_id)]
       ELSE objs2

\* the child/parent links after the first two blocks of set_object_parent
Reparent(objs, child_id, new_parent_id) ==
    LET old == objs[child_id].parent_id
        objs1 == IF old # 0
                 THEN [objs EXCEPT ![old].child_ids = Retain(@, child_id)]
                 ELSE objs
        objs2 == [objs1 EXCEPT ![child_id].parent_id = new_parent_id]
    IN IF new_parent_id # 0
       THEN [objs2 EXCEPT ![new_parent_id].child_ids = Append(@, child_id)]
       ELSE objs2

(***************************************************************************)
(* Drawable extraction                                                     *)
(***************************************************************************)
\* Drawable::new
Drawable(model_matrix, primitive_index, material_id) ==
    [model_matrix |-> model_matrix, primitive_index |-> primitive_index,
     material_id |-> material_id]

RECURSIVE PrimitiveDrawables(_, _, _)
PrimitiveDrawables(matrix, prims, i) ==
    IF i > Len(prims) THEN <<>>
    ELSE <<Drawable(matrix, prims[i][1], prims[i][2])>>
         \o PrimitiveDrawables(matrix, prims, i + 1)

\* DrawableManager::gather_drawables_from_scene
RECURSIVE GatherDrawablesFromScene(_, _)
GatherDrawablesFromScene(objs, i) ==
    IF i > Len(objs) THEN <<>>
    ELSE LET o == objs[i]
         IN IF ~o.enabled \/ o.model_id = 0 \/ o.model_id > Len(SceneModels)
            THEN GatherDrawablesFromScene(objs, i + 1)
            ELSE PrimitiveDrawables(o.transform.world_matrix, SceneModels[o.model_id], 1)
                 \o GatherDrawablesFromScene(objs, i + 1)

(***************************************************************************)
(* Actions of the scene / frame loop                                       *)
(***************************************************************************)
Mutating == pc \in {"setup", "mutate"} /\ calls < MaxCalls

\* history: the local transform of object id is set; frames begin with the
\* first early_update, calls made before it belong to no frame
SetInFrame(id) == IF pc = "mutate" THEN set_this_frame \cup {id} ELSE set_this_frame

\* Scene::add_object
AddObject(model_id, enabled) ==
    /\ Mutating
    /\ Len(objects) < MaxObjects
    /\ objects' = Append(objects, NewObject(model_id, enabled))
    /\ calls' = calls + 1
    /\ UNCHANGED <<drawables, pc, set_this_frame>>

\* Scene::spawn_gltf_node for one node: the object gets the node's transform and
\* mesh, is added to the arena and then linked below its parent
SpawnGltfNode(trs, model_id, parent) ==
    /\ Mutating
    /\ Len(objects) < MaxObjects
    /\ LET object == [NewObject(model_id, TRUE) EXCEPT
                         !.transform = SetTransform(@, trs[1], trs[2], trs[3])]
           added == Append(objects, object)
           object_id == Len(added)
       IN objects' = IF parent # 0
                     THEN InvalidateObjectHierarchy(Reparent(added, object_id, parent),
                                                    object_id)
                     ELSE added
    /\ calls' = calls + 1
    /\ set_this_frame' = SetInFrame(Len(objects) + 1)
    /\ UNCHANGED <<drawables, pc>>

\* variant: the links are changed but the moved subtree is not invalidated
SetObjectParent_NoInvalidate(child_id, new_parent_id) ==
    /\ pc \in {"setup", "mutate"} /\ calls < MaxCalls
    /\ LET linked == Reparent(objects, child_id, new_parent_id)
       IN /\ objects' = linked
          /\ pc' = IF Diverges(linked, child_id) THEN "crashed" ELSE pc
    /\ calls' = calls + 1
    /\ UNCHANGED <<drawables, set_this_frame>>

\* Scene::set_object_parent; the trailing invalidation overflows the stack
\* when the new link closes a cycle
SetObjectParent(child_id, new_parent_id) ==
    /\ Mutating
    /\ LET linked == Reparent(objects, child_id, new_parent_id)
       IN IF Diverges(linked, child_id)
          THEN /\ objects' = linked
               /\ pc' = "crashed"
          ELSE /\ objects' = InvalidateObjectHierarchy(linked, child_id)
               /\ pc' = pc
    /\ calls' = calls + 1
    /\ UNCHANGED <<drawables, set_this_frame>>

\* Scene::invalidate_object_hierarchy, called directly
InvalidateHierarchy(id) ==
    /\ Mutating
    /\ objects' = InvalidateObjectHierarchy(objects, id)
    /\ calls' = calls + 1
    /\ UNCHANGED <<drawables, pc, set_this_frame>>

\* Scene::set_object_translation
SetObjectTranslation(id, t) ==
    /\ Mutating
    /\ objects' = InvalidateObjectHierarchy(
                     [objects EXCEPT ![id].transform = SetTranslation(@, t)], id)
    /\ calls' = calls + 1
    /\ set_this_frame' = SetInFrame(id)
    /\ UNCHANGED <<drawables, pc>>

\* Scene::set_object_rotation
SetObjectRotation(id, r) ==
    /\ Mutating
    /\ objects' = InvalidateObjectHierarchy(
                     [objects EXCEPT ![id].transform = SetRotation(@, r)], id)
    /\ calls' = calls + 1
    /\ set_this_frame' = SetInFrame(id)
    /\ UNCHANGED <<drawables, pc>>

\* Scene::set_object_scale
SetObjectScale(id, s) ==
    /\ Mutating
    /\ objects' = InvalidateObjectHierarchy(
                     [objects EXCEPT ![id].transform = SetScale(@, s)], id)
    /\ calls' = calls + 1
    /\ set_this_frame' = SetInFrame(id)
    /\ UNCHANGED <<drawables, pc>>

\* Scene::set_object_transform
SetObjectTransform(id, t, r, s) ==
    /\ Mutating
    /\ objects' = InvalidateObjectHierarchy(
                     [objects EXCEPT ![id].transform = SetTransform(@, t, r, s)], id)
    /\ calls' = calls + 1
    /\ set_this_frame' = SetInFrame(id)
    /\ UNCHANGED <<drawables, pc>>

\* Scene::early_update, first statement of engine::update
EarlyUpdate ==
    /\ pc \in {"setup", "frame_end"}
    /\ objects' = [i \in 1 .. Len(objects) |->
                     [objects[i] EXCEPT !.transform = ResetFlags(@)]]
    /\ pc' = "mutate"
    /\ set_this_frame' = {}
    /\ UNCHANGED <<drawables, calls>>

\* Scene::late_update, after state.update() in engine::update
LateUpdate ==
    /\ pc = "mutate"
    /\ objects' = UpdateTransforms(objects)
    /\ pc' = "late_done"
    /\ UNCHANGED <<drawables, calls, set_this_frame>>

\* variant: the list of the frame before is not cleared before gathering
UpdateFromScene_NoClear ==
    /\ pc = "late_done"
    /\ drawables' = drawables \o GatherDrawablesFromScene(objects, 1)
    /\ pc' = "frame_end"
    /\ set_this_frame' = {}
    /\ UNCHANGED <<objects, calls>>

\* DrawableManager::update_from_scene, called by Renderer::render
UpdateFromScene ==
    /\ pc = "late_done"
    /\ drawables' = GatherDrawablesFromScene(objects, 1)
    /\ pc' = "frame_end"
    /\ set_this_frame' = {}
    /\ UNCHANGED <<objects, calls>>

SceneInit ==
    /\ objects = <<>>
    /\ drawables = <<>>
    /\ pc = "setup"
    /\ calls = 0
    /\ set_this_frame = {}

SceneNext ==
    \/ \E m \in ModelIds, e \in BOOLEAN : AddObject(m, e)
    \/ \E trs \in GltfNodeTransforms, m \in ModelIds, p \in ObjectIds \cup {0} :
          SpawnGltfNode(trs, m, p)
    \/ \E c \in ObjectIds, p \in ObjectIds \cup {0} : SetObjectParent(c, p)
    \/ \E id \in ObjectIds : InvalidateHierarchy(id)
    \/ \E id \in ObjectIds, t \in TranslationValues : SetObjectTranslation(id, t)
    \/ \E id \in ObjectIds, r \in RotationValues : SetObjectRotation(id, r)
    \/ \E id \in ObjectIds, s \in ScaleValues : SetObjectScale(id, s)
    \/ \E id \in ObjectIds, t \in TranslationValues, r \in RotationValues,
          s \in ScaleValues : SetObjectTransform(id, t, r, s)
    \/ EarlyUpdate
    \/ LateUpdate
    \/ UpdateFromScene

(***************************************************************************)
(* Frustum test                                                            *)
(***************************************************************************)
\* Plane::signed_distance_to_point
SignedDistanceToPoint(plane, point) == plane.normal * point + plane.distance

\* the planes of a frustum, inward-facing normals
FrustumPlanes(f) ==
    << [normal |-> 1, distance |-> 0 - f[1]], [normal |-> -1, distance |-> f[2]] >>

\* AABB::corners
Corners(aabb_min, aabb_max) == <<aabb_min, aabb_max>>

\* Mat4::transform_point3: points lie on the integer line, so that a box can
\* lie wholly beyond a plane (the all-zero matrix of a never-written record
\* maps every point to the origin)
TransformPoint3(m, point) == m[1] * point + m[2]

\* variant: a box is rejected as soon as one corner lies outside a plane
IntersectsFrustumTransformed_AnyCornerOutside(aabb_min, aabb_max, planes, transform) ==
    LET corners == [k \in 1 .. 2 |->
                       TransformPoint3(transform, Corners(aabb_min, aabb_max)[k])]
    IN \A p \in 1 .. Len(planes) :
          \A k \in 1 .. 2 : SignedDistanceToPoint(planes[p], corners[k]) >= 0

\* variant: a corner on the plane counts as outside
IntersectsFrustumTransformed_Strict(aabb_min, aabb_max, planes, transform) ==
    LET corners == [k \in 1 .. 2 |->
                       TransformPoint3(transform, Corners(aabb_min, aabb_max)[k])]
    IN \A p \in 1 .. Len(planes) :
          \E k \in 1 .. 2 : SignedDistanceToPoint(planes[p], corners[k]) > 0

\* AABB::intersects_frustum_transformed
IntersectsFrustumTransformed(aabb_min, aabb_max, planes, transform) ==
    LET corners == [k \in 1 .. 2 |->
                       TransformPoint3(transform, Corners(aabb_min, aabb_max)[k])]
    IN \A p \in 1 .. Len(planes) :
          \E k \in 1 .. 2 : SignedDistanceToPoint(planes[p], corners[k]) >= 0

(***************************************************************************)
(* GPU buffers and the commands of a frame                                 *)
(***************************************************************************)
DrawableSlots == 0 .. MAX_DRAWABLES - 1
MeshSlots == 0 .. MAX_MESHES - 1
MeshIndices == 0 .. Len(MeshTable) - 1

\* a record of all zero bytes
ZeroDrawable == Drawable(<<0, 0>>, 0, 0)
ZeroCommand ==
    [index_count |-> 0, instance_count |-> 0, first_index |-> 0,
     base_vertex |-> 0, first_instance |-> 0]

\* material of a primitive (ModelPrimitive::material_id)
MaterialOf(mesh) == mesh + 1

\* the drawable lists a frame can upload
FrameDrawable(mesh, matrix) == Drawable(matrix, mesh, MaterialOf(mesh))
FrameDrawables == {FrameDrawable(m, w) : m \in MeshIndices, w \in FrameMatrices}
FrameLists == UNION {[1 .. n -> FrameDrawables] : n \in 0 .. MaxFrameDrawables}

\* scenes of five drawables: three of mesh A and two of mesh B, placed so that
\* one frustum of Frusta holds the three of A and exactly one of B
ScenarioLists ==
    { << FrameDrawable(0, <<1, 0>>), FrameDrawable(0, <<1, 1>>),
         FrameDrawable(0, <<1, 0>>), FrameDrawable(1, <<1, 0>>),
         FrameDrawable(1, <<1, 2>>) >>,
      << FrameDrawable(0, <<1, 1>>), FrameDrawable(0, <<1, 2>>),
         FrameDrawable(0, <<1, 1>>), FrameDrawable(1, <<1, 1>>),
         FrameDrawable(1, <<1, 3>>) >> }

\* u32::div_ceil
DivCeil(a, b) == (a + b - 1) \div b

ClearBuffer(name) == [op |-> "clear_buffer", buffer |-> name, workgroups |-> 0]
ComputePass(shader, workgroups) ==
    [op |-> "compute_pass", buffer |-> shader, workgroups |-> workgroups]
\* the draw call GeometryPass::render_indirect records in its render pass
MultiDrawCall_AlwaysCount ==
    [variant |-> "multi_draw_indexed_indirect_count", max_count |-> MAX_MESHES]

MultiDrawCall ==
    IF config.use_multi_draw_indirect_count
    THEN [variant |-> "multi_draw_indexed_indirect_count", max_count |-> MAX_MESHES]
    ELSE [variant |-> "multi_draw_indexed_indirect", max_count |-> MAX_MESHES]

RenderPass(name) ==
    [op |-> "render_pass", buffer |-> name, workgroups |-> 0, draw |-> MultiDrawCall]

\* variants of dispatch: one clear_buffer is left out, or two passes are swapped
Dispatch_NoLocalIndicesClear(instance_count) ==
    LET drawable_workgroup_count == DivCeil(instance_count, WORKGROUP_SIZE)
    IN << ClearBuffer("draw_commands"),
          ClearBuffer("draw_commands_count"),
          ClearBuffer("drawable_visibility"),
          ClearBuffer("visible_drawables_by_mesh"),
          ComputePass("frustum_culling", drawable_workgroup_count),
          ComputePass("generate_draws", 1),
          ComputePass("gather_instance_data", drawable_workgroup_count) >>

Dispatch_NoVisibleCountClear(instance_count) ==
    LET drawable_workgroup_count == DivCeil(instance_count, WORKGROUP_SIZE)
    IN << ClearBuffer("draw_commands"),
          ClearBuffer("draw_commands_count"),
          ClearBuffer("drawable_visibility"),
          ClearBuffer("drawable_local_indices"),
          ComputePass("frustum_culling", drawable_workgroup_count),
          ComputePass("generate_draws", 1),
          ComputePass("gather_instance_data", drawable_workgroup_count) >>

Dispatch_NoDrawCountClear(instance_count) ==
    LET drawable_workgroup_count == DivCeil(instance_count, WORKGROUP_SIZE)
    IN << ClearBuffer("draw_commands"),
          ClearBuffer("drawable_visibility"),
          ClearBuffer("visible_drawables_by_mesh"),
          ClearBuffer("drawable_local_indices"),
          ComputePass("frustum_culling", drawable_workgroup_count),
          ComputePass("generate_draws", 1),
          ComputePass("gather_instance_data", drawable_workgroup_count) >>

Dispatch_NoDrawCommandsClear(instance_count) ==
    LET drawable_workgroup_count == DivCeil(instance_count, WORKGROUP_SIZE)
    IN << ClearBuffer("draw_commands_count"),
          ClearBuffer("drawable_visibility"),
          ClearBuffer("visible_drawables_by_mesh"),
          ClearBuffer("drawable_local_indices"),
          ComputePass("frustum_culling", drawable_workgroup_count),
          ComputePass("generate_draws", 1),
          ComputePass("gather_instance_data", drawable_workgroup_count) >>

Dispatch_GatherBeforeGenerate(instance_count) ==
    LET drawable_workgroup_count == DivCeil(instance_count, WORKGROUP_SIZE)
    IN << ClearBuffer("draw_commands"),
          ClearBuffer("draw_commands_count"),
          ClearBuffer("drawable_visibility"),
          ClearBuffer("visible_drawables_by_mesh"),
          ClearBuffer("drawable_local_indices"),
          ComputePass("frustum_culling", drawable_workgroup_count),
          ComputePass("gather_instance_data", drawable_workgroup_count),
          ComputePass("generate_draws", 1) >>

Dispatch_GenerateBeforeCull(instance_count) ==
    LET drawable_workgroup_count == DivCeil(instance_count, WORKGROUP_SIZE)
    IN << ClearBuffer("draw_commands"),
          ClearBuffer("draw_commands_count"),
          ClearBuffer("drawable_visibility"),
          ClearBuffer("visible_drawables_by_mesh"),
          ClearBuffer("drawable_local_indices"),
          ComputePass("generate_draws", 1),
          ComputePass("frustum_culling", drawable_workgroup_count),
          ComputePass("gather_instance_data", drawable_workgroup_count) >>

\* variant: nothing is recorded for a frame without drawables
Dispatch_SkipWhenEmpty(instance_count) ==
    LET drawable_workgroup_count == DivCeil(instance_count, WORKGROUP_SIZE)
    IN IF instance_count = 0 THEN <<>>
       ELSE << ClearBuffer("draw_commands"),
               ClearBuffer("draw_commands_count"),
               ClearBuffer("drawable_visibility"),
               ClearBuffer("visible_drawables_by_mesh"),
               ClearBuffer("drawable_local_indices"),
               ComputePass("frustum_culling", drawable_workgroup_count),
               ComputePass("generate_draws", 1),
               ComputePass("gather_instance_data", drawable_workgroup_count) >>

\* DrawCommandGenerator::dispatch: the commands it records, in order
Dispatch(instance_count) ==
    LET drawable_workgroup_count == DivCeil(instance_count, WORKGROUP_SIZE)
    IN << ClearBuffer("draw_commands"),
          ClearBuffer("draw_commands_count"),
          ClearBuffer("drawable_visibility"),
          ClearBuffer("visible_drawables_by_mesh"),
          ClearBuffer("drawable_local_indices"),
          ComputePass("frustum_culling", drawable_workgroup_count),
          ComputePass("generate_draws", 1),
          ComputePass("gather_instance_data", drawable_workgroup_count) >>

\* the command the GPU executes next
Executing == cpu = "submitted" /\ encoder # <<>>
Current == Head(encoder)
InPass(shader) ==
    Executing /\ Current.op = "compute_pass" /\ Current.buffer = shader

\* global invocation ids of a dispatch over drawables; an invocation past the
\* end of the bound drawable array does nothing
DrawableInvocations(workgroups) ==
    {gid \in 0 .. workgroups * WORKGROUP_SIZE - 1 : gid < MAX_DRAWABLES}

\* invocations of the running pass
Invocations ==
    IF Current.buffer = "generate_draws" THEN MeshSlots
    ELSE DrawableInvocations(Current.workgroups)

(***************************************************************************)
(* CPU side of a frame: Renderer::render and Renderer::finish_frame        *)
(***************************************************************************)
\* Queue::write_buffer(buffer, 0, data): a write that overruns the buffer is a
\* validation error and leaves the buffer as it is
QueueWriteBuffer(buffer, data) ==
    IF Len(data) > Cardinality(DOMAIN buffer)
    THEN [buffer |-> buffer, validation_error |-> TRUE]
    ELSE [buffer |-> [i \in DOMAIN buffer |->
                         IF i < Len(data) THEN data[i + 1] ELSE buffer[i]],
          validation_error |-> FALSE]

\* variant: the slice is cut to the capacity of the buffer before the write
WriteDrawablesAtOffset_Truncating(buffer, instances) ==
    IF instances = <<>> THEN [buffer |-> buffer, validation_error |-> FALSE]
    ELSE QueueWriteBuffer(buffer,
            SubSeq(instances, 1,
                   IF Len(instances) > Cardinality(DOMAIN buffer)
                   THEN Cardinality(DOMAIN buffer) ELSE Len(instances)))

\* DrawableStorageBuffer::write_drawables_at_offset(queue, instances, 0)
WriteDrawablesAtOffset(buffer, instances) ==
    IF instances = <<>> THEN [buffer |-> buffer, validation_error |-> FALSE]
    ELSE QueueWriteBuffer(buffer, instances)

\* DrawableManager::update_from_scene with the list gathered from the scene;
\* a validation error of the queue is fatal (no error scope is open and no
\* uncaptured-error handler is installed)
UploadDrawables(list) ==
    /\ cpu = "idle"
    /\ drawable_count' = Len(list)
    /\ LET written == WriteDrawablesAtOffset(all_drawables, list)
       IN /\ all_drawables' = written.buffer
          /\ cpu' = IF written.validation_error THEN "aborted" ELSE "uploaded"
    /\ finished' = <<>>
    /\ written_by' = [d \in DrawableSlots |-> <<>>]
    /\ UNCHANGED <<visible_drawables, frustum_buffer, drawable_visibility_buffer,
                   visible_drawables_by_mesh_buffer, base_offsets_buffer,
                   draw_commands_buffer, draw_commands_count_buffer,
                   drawable_local_indices_buffer, encoder, done>>
    /\ UNCHANGED renderVars

\* DrawableManager::cull_and_generate_commands
CullAndGenerateCommands(f) ==
    /\ cpu = "uploaded"
    /\ frustum_buffer' = FrustumPlanes(f)
    /\ encoder' = Dispatch(drawable_count)
    /\ cpu' = "dispatched"
    /\ UNCHANGED <<drawable_count, all_drawables, visible_drawables,
                   drawable_visibility_buffer, visible_drawables_by_mesh_buffer,
                   base_offsets_buffer, draw_commands_buffer,
                   draw_commands_count_buffer, drawable_local_indices_buffer,
                   done, finished, written_by>>
    /\ UNCHANGED renderVars

\* GeometryPass::render_indirect, recorded on the same encoder
RenderIndirect ==
    /\ cpu = "dispatched"
    /\ encoder' = Append(encoder, RenderPass("geometry"))
    /\ cpu' = "recorded"
    /\ UNCHANGED <<drawable_count, all_drawables, visible_drawables, frustum_buffer,
                   drawable_visibility_buffer, visible_drawables_by_mesh_buffer,
                   base_offsets_buffer, draw_commands_buffer,
                   draw_commands_count_buffer, drawable_local_indices_buffer,
                   done, finished, written_by>>
    /\ UNCHANGED renderVars

\* Renderer::finish_frame: encoder.finish() and queue.submit
FinishFrame ==
    /\ cpu = "recorded"
    /\ cpu' = "submitted"
    /\ UNCHANGED <<drawable_count, all_drawables, visible_drawables, frustum_buffer,
                   drawable_visibility_buffer, visible_drawables_by_mesh_buffer,
                   base_offsets_buffer, draw_commands_buffer,
                   draw_commands_count_buffer, drawable_local_indices_buffer,
                   encoder, done, finished, written_by>>
    /\ UNCHANGED renderVars

(***************************************************************************)
(* GPU side of a frame: the recorded commands execute in order; the        *)
(* invocations of one compute pass run in any order                        *)
(***************************************************************************)
\* CommandEncoder::clear_buffer(buffer, 0, None)
GpuClearBuffer ==
    /\ Executing
    /\ Current.op = "clear_buffer"
    /\ draw_commands_buffer' =
          IF Current.buffer = "draw_commands"
          THEN [m \in MeshSlots |-> ZeroCommand] ELSE draw_commands_buffer
    /\ draw_commands_count_buffer' =
          IF Current.buffer = "draw_commands_count" THEN 0 ELSE draw_commands_count_buffer
    /\ drawable_visibility_buffer' =
          IF Current.buffer = "drawable_visibility"
          THEN [d \in DrawableSlots |-> 0] ELSE drawable_visibility_buffer
    /\ visible_drawables_by_mesh_buffer' =
          IF Current.buffer = "visible_drawables_by_mesh"
          THEN [m \in MeshSlots |-> 0] ELSE visible_drawables_by_mesh_buffer
    /\ drawable_local_indices_buffer' =
          IF Current.buffer = "drawable_local_indices"
          THEN [m \in MeshSlots |-> 0] ELSE drawable_local_indices_buffer
    /\ encoder' = Tail(encoder)
    /\ UNCHANGED <<drawable_count, all_drawables, visible_drawables, frustum_buffer,
                   base_offsets_buffer, cpu, done, finished, written_by>>
    /\ UNCHANGED renderVars

\* frustum_culling.wgsl, one invocation
CullInvocation(gid) ==
    /\ InPass("frustum_culling")
    /\ gid \in Invocations \ done
    /\ LET drawable == all_drawables[gid]
           mesh == drawable.primitive_index
           info == MeshTable[mesh + 1]
           visible == IntersectsFrustumTransformed(info.aabb_min, info.aabb_max,
                                                   frustum_buffer, drawable.model_matrix)
       IN IF visible
          THEN /\ visible_drawables_by_mesh_buffer' =
                     [visible_drawables_by_mesh_buffer EXCEPT ![mesh] = @ + 1]
               /\ drawable_visibility_buffer' =
                     [drawable_visibility_buffer EXCEPT ![gid] = 1]
          ELSE UNCHANGED <<visible_drawables_by_mesh_buffer, drawable_visibility_buffer>>
    /\ done' = done \cup {gid}
    /\ UNCHANGED <<drawable_count, all_drawables, visible_drawables, frustum_buffer,
                   base_offsets_buffer, draw_commands_buffer, draw_commands_count_buffer,
                   drawable_local_indices_buffer, encoder, cpu, finished, written_by>>
    /\ UNCHANGED renderVars

\* sum of the visible counts of the mesh slots below m
RECURSIVE PrefixSum(_, _)
PrefixSum(counts, m) ==
    IF m = 0 THEN 0 ELSE PrefixSum(counts, m - 1) + counts[m - 1]

\* the draw command of mesh m
DrawCommand(m, instance_count, first_instance) ==
    [index_count |-> MeshTable[m + 1].index_count,
     instance_count |-> instance_count,
     first_index |-> MeshTable[m + 1].first_index,
     base_vertex |-> MeshTable[m + 1].vertex_offset,
     first_instance |-> first_instance]

\* generate_draws.wgsl, the work for one mesh slot
GenerateInvocation(m) ==
    /\ InPass("generate_draws")
    /\ m \in Invocations \ done
    /\ LET count == visible_drawables_by_mesh_buffer[m]
           base == PrefixSum(visible_drawables_by_mesh_buffer, m)
           command_index == draw_commands_count_buffer
       IN /\ base_offsets_buffer' = [base_offsets_buffer EXCEPT ![m] = base]
          /\ IF count > 0
             THEN /\ draw_commands_count_buffer' = draw_commands_count_buffer + 1
                  /\ draw_commands_buffer' =
                        IF command_index \in MeshSlots
                        THEN [draw_commands_buffer EXCEPT
                                 ![command_index] = DrawCommand(m, count, base)]
                        ELSE draw_commands_buffer
             ELSE UNCHANGED <<draw_commands_count_buffer, draw_commands_buffer>>
    /\ done' = done \cup {m}
    /\ UNCHANGED <<drawable_count, all_drawables, visible_drawables, frustum_buffer,
                   drawable_visibility_buffer, visible_drawables_by_mesh_buffer,
                   drawable_local_indices_buffer, encoder, cpu, finished, written_by>>
    /\ UNCHANGED renderVars

\* gather_instance_data.wgsl, one invocation
GatherInvocation(gid) ==
    /\ InPass("gather_instance_data")
    /\ gid \in Invocations \ done
    /\ IF drawable_visibility_buffer[gid] = 1
       THEN LET mesh == all_drawables[gid].primitive_index
                local_slot == drawable_local_indices_buffer[mesh]
                destination == base_offsets_buffer[mesh] + local_slot
            IN /\ drawable_local_indices_buffer' =
                     [drawable_local_indices_buffer EXCEPT ![mesh] = @ + 1]
               /\ IF destination \in DrawableSlots
                  THEN /\ visible_drawables' =
                             [visible_drawables EXCEPT ![destination] = all_drawables[gid]]
                       /\ written_by' =
                             [written_by EXCEPT ![destination] = Append(@, gid)]
                  ELSE UNCHANGED <<visible_drawables, written_by>>
       ELSE UNCHANGED <<drawable_local_indices_buffer, visible_drawables, written_by>>
    /\ done' = done \cup {gid}
    /\ UNCHANGED <<drawable_count, all_drawables, frustum_buffer,
                   drawable_visibility_buffer, visible_drawables_by_mesh_buffer,
                   base_offsets_buffer, draw_commands_buffer, draw_commands_count_buffer,
                   encoder, cpu, finished>>
    /\ UNCHANGED renderVars

\* the end of a compute pass: every invocation has finished
EndComputePass ==
    /\ Executing
    /\ Current.op = "compute_pass"
    /\ done = Invocations
    /\ encoder' = Tail(encoder)
    /\ done' = {}
    /\ finished' = Append(finished, Current.buffer)
    /\ UNCHANGED <<drawable_count, all_drawables, visible_drawables, frustum_buffer,
                   drawable_visibility_buffer, visible_drawables_by_mesh_buffer,
                   base_offsets_buffer, draw_commands_buffer, draw_commands_count_buffer,
                   drawable_local_indices_buffer, cpu, written_by>>
    /\ UNCHANGED renderVars

\* the instances one indirect command draws; an empty command draws nothing
DrawnInstances(command) ==
    IF command.index_count = 0 THEN {}
    ELSE {[index_count |-> command.index_count, first_index |-> command.first_index,
           base_vertex |-> command.base_vertex,
           instance_index |-> command.first_instance + i] :
             i \in 0 .. command.instance_count - 1}

\* RenderPass::multi_draw_indexed_indirect(buffer, 0, count): the first count
\* commands of the buffer are executed
MultiDrawIndexedIndirect(commands, count) ==
    UNION {DrawnInstances(commands[k]) : k \in {j \in MeshSlots : j < count}}

\* RenderPass::multi_draw_indexed_indirect_count(buffer, 0, count_buffer, 0,
\* max_count): the number of commands is read from the count buffer
MultiDrawIndexedIndirectCount(commands, count, max_count) ==
    MultiDrawIndexedIndirect(commands, IF count < max_count THEN count ELSE max_count)

\* the draw call of the geometry pass, executed
ExecuteMultiDraw(call) ==
    IF call.variant = "multi_draw_indexed_indirect_count"
    THEN MultiDrawIndexedIndirectCount(draw_commands_buffer, draw_commands_count_buffer,
                                       call.max_count)
    ELSE MultiDrawIndexedIndirect(draw_commands_buffer, call.max_count)

\* the indirect draw of the geometry pass reads the command, count and
\* visible-drawable buffers
ExecuteRenderPass ==
    /\ Executing
    /\ Current.op = "render_pass"
    /\ encoder' = Tail(encoder)
    /\ finished' = Append(finished, Current.buffer)
    /\ UNCHANGED <<drawable_count, all_drawables, visible_drawables, frustum_buffer,
                   drawable_visibility_buffer, visible_drawables_by_mesh_buffer,
                   base_offsets_buffer, draw_commands_buffer, draw_commands_count_buffer,
                   drawable_local_indices_buffer, cpu, done, written_by>>
    /\ drawn' = ExecuteMultiDraw(Current.draw)
    /\ UNCHANGED <<adapter_features, config>>

\* the submitted commands have all executed; the next frame's queue writes
\* and commands follow on the queue timeline
FrameComplete ==
    /\ cpu = "submitted"
    /\ encoder = <<>>
    /\ cpu' = "idle"
    /\ UNCHANGED <<drawable_count, all_drawables, visible_drawables, frustum_buffer,
                   drawable_visibility_buffer, visible_drawables_by_mesh_buffer,
                   base_offsets_buffer, draw_commands_buffer, draw_commands_count_buffer,
                   drawable_local_indices_buffer, encoder, done, finished, written_by>>
    /\ UNCHANGED renderVars

\* the optional features an adapter may offer
AdapterFeatureSets == {{}, {"MULTI_DRAW_INDIRECT_COUNT"}}

\* RenderConfig::default
RenderConfigDefault == [use_multi_draw_indirect_count |-> FALSE]

\* Renderer::new on an adapter with the given features: the config is switched
\* to the count variant when the adapter has the feature
RendererNewOn(features) ==
    /\ adapter_features = features
    /\ config = IF "MULTI_DRAW_INDIRECT_COUNT" \in adapter_features
                THEN [RenderConfigDefault EXCEPT !.use_multi_draw_indirect_count = TRUE]
                ELSE RenderConfigDefault
    /\ drawn = {}

\* Renderer::new on any adapter
RendererNew == \E features \in AdapterFeatureSets : RendererNewOn(features)

\* Renderer::new on an adapter that has every optional feature; the draw call is
\* the only code that depends on the adapter
RendererNewFullAdapter == RendererNewOn({"MULTI_DRAW_INDIRECT_COUNT"})

\* buffers are zero-initialised at creation
GpuInit ==
    /\ drawable_count = 0
    /\ all_drawables = [d \in DrawableSlots |-> ZeroDrawable]
    /\ visible_drawables = [d \in DrawableSlots |-> ZeroDrawable]
    /\ frustum_buffer = << [normal |-> 0, distance |-> 0], [normal |-> 0, distance |-> 0] >>
    /\ drawable_visibility_buffer = [d \in DrawableSlots |-> 0]
    /\ visible_drawables_by_mesh_buffer = [m \in MeshSlots |-> 0]
    /\ base_offsets_buffer = [m \in MeshSlots |-> 0]
    /\ draw_commands_buffer = [m \in MeshSlots |-> ZeroCommand]
    /\ draw_commands_count_buffer = 0
    /\ drawable_local_indices_buffer = [m \in MeshSlots |-> 0]
    /\ encoder = <<>>
    /\ cpu = "idle"
    /\ done = {}
    /\ finished = <<>>
    /\ written_by = [d \in DrawableSlots |-> <<>>]

GpuNext ==
    \/ \E list \in FrameLists : UploadDrawables(list)
    \/ \E f \in Frusta : CullAndGenerateCommands(f)
    \/ RenderIndirect
    \/ FinishFrame
    \/ GpuClearBuffer
    \/ \E gid \in DrawableSlots : CullInvocation(gid)
    \/ \E m \in MeshSlots : GenerateInvocation(m)
    \/ \E gid \in DrawableSlots : GatherInvocation(gid)
    \/ EndComputePass
    \/ ExecuteRenderPass
    \/ FrameComplete

(***************************************************************************)
(* Asset pipeline: bake_models and MeshBuffers::new                        *)
(***************************************************************************)
\* the primitives of all models, in the order of the two nested loops
RECURSIVE ModelPrimitives(_, _)
ModelPrimitives(models, i) ==
    IF i > Len(models) THEN <<>>
    ELSE models[i] \o ModelPrimitives(models, i + 1)

\* the body of the inner loop of bake_models, from primitive i on;
\* vertices_len and indices_len are the lengths of the shared buffers so far
RECURSIVE BakePrimitives(_, _, _, _)
BakePrimitives(primitives, i, vertices_len, indices_len) ==
    IF i > Len(primitives) THEN <<>>
    ELSE << [index_count |-> primitives[i].indices,
             first_index |-> indices_len,
             vertex_offset |-> vertices_len,
             aabb_min |-> primitives[i].aabb_min,
             aabb_max |-> primitives[i].aabb_max] >>
         \o BakePrimitives(primitives, i + 1,
                           vertices_len + primitives[i].vertices,
                           indices_len + primitives[i].indices)

\* bake_models
BakeModels(models) == BakePrimitives(ModelPrimitives(models, 1), 1, 0, 0)

\* MeshBuffers::new(device, bake_models(models)) in Renderer::new
CreateMeshBuffers ==
    /\ ~mesh_buffer.created
    /\ mesh_buffer' = [created |-> TRUE, meshes |-> BakeModels(models_to_bake)]
    /\ UNCHANGED <<models_to_bake, testVars, unitVars, restVars, sceneVars, gpuVars, renderVars,
                   layoutVars>>

\* AABB::intersects_frustum_transformed applied to the box under test
TestFrustumIntersection ==
    /\ test_visible = "untested"
    /\ test_visible' = IF IntersectsFrustumTransformed(test_aabb[1], test_aabb[2],
                                                       FrustumPlanes(test_frustum),
                                                       test_transform)
                       THEN "visible" ELSE "culled"
    /\ UNCHANGED <<test_aabb, test_transform, test_frustum, assetVars, unitVars, restVars,
                 renderVars, layoutVars,
                   sceneVars, gpuVars>>

\* no asset is being loaded and no box is under test
AssetInit ==
    /\ models_to_bake = <<>>
    /\ mesh_buffer = [created |-> FALSE, meshes |-> <<>>]

TestInit ==
    /\ test_aabb = <<0, 0>>
    /\ test_transform = Mat4Identity
    /\ test_frustum = <<0, 0>>
    /\ test_visible = "untested"

\* no get_local_matrix call yet
NoRead == [called |-> FALSE, local_dirty |-> FALSE, world_dirty |-> FALSE,
           matrix |-> Mat4Identity]

UnitInit ==
    /\ unit_transform = TransformFromTranslation(0)
    /\ local_matrix_read = NoRead

\* values handed to the methods of the one Transform
UnitTranslations == {0, 1}
UnitRotations == {1, 2}
UnitScales == {1, 2}
UnitWorldMatrices == {<<1, 0>>, <<2, 1>>}

\* Transform::set_translation / set_rotation / set_scale / set_transform
TransformSet ==
    /\ \/ \E t \in UnitTranslations : unit_transform' = SetTranslation(unit_transform, t)
       \/ \E r \in UnitRotations : unit_transform' = SetRotation(unit_transform, r)
       \/ \E s \in UnitScales : unit_transform' = SetScale(unit_transform, s)
       \/ \E t \in UnitTranslations, r \in UnitRotations, s \in UnitScales :
             unit_transform' = SetTransform(unit_transform, t, r, s)
    /\ UNCHANGED local_matrix_read

\* Transform::get_local_matrix
TransformGetLocalMatrix ==
    /\ unit_transform' = GetLocalMatrix(unit_transform)
    /\ local_matrix_read' = [called |-> TRUE,
                             local_dirty |-> unit_transform.local_dirty,
                             world_dirty |-> unit_transform.world_dirty,
                             matrix |-> unit_transform'.local_matrix]

\* Transform::set_world_matrix
TransformSetWorldMatrix(m) ==
    /\ unit_transform' = SetWorldMatrix(unit_transform, m)
    /\ UNCHANGED local_matrix_read

\* Transform::invalidate_local
TransformInvalidateLocal ==
    /\ unit_transform' = InvalidateLocal(unit_transform)
    /\ UNCHANGED local_matrix_read

\* Transform::invalidate_world
TransformInvalidateWorld ==
    /\ unit_transform' = InvalidateWorld(unit_transform)
    /\ UNCHANGED local_matrix_read

\* Transform::reset_flags
TransformResetFlags ==
    /\ unit_transform' = ResetFlags(unit_transform)
    /\ UNCHANGED local_matrix_read

\* the public methods of Transform, in any order
TransformNext ==
    \/ TransformSet
    \/ TransformGetLocalMatrix
    \/ \E m \in UnitWorldMatrices : TransformSetWorldMatrix(m)
    \/ TransformInvalidateLocal
    \/ TransformInvalidateWorld
    \/ TransformResetFlags

\* drawable lists of exactly the capacity of the drawable buffer and of one more
CapacityList(n) == [k \in 1 .. n |-> FrameDrawable(k % 2, <<1, 0>>)]
CapacityLists == {CapacityList(MAX_DRAWABLES), CapacityList(MAX_DRAWABLES + 1)}

\* frames of a scene at, and one past, the capacity
CapacityNext ==
    \/ \E list \in CapacityLists : UploadDrawables(list)
    \/ \E f \in Frusta : CullAndGenerateCommands(f)
    \/ RenderIndirect
    \/ FinishFrame
    \/ GpuClearBuffer
    \/ \E gid \in DrawableSlots : CullInvocation(gid)
    \/ \E m \in MeshSlots : GenerateInvocation(m)
    \/ \E gid \in DrawableSlots : GatherInvocation(gid)
    \/ EndComputePass
    \/ ExecuteRenderPass
    \/ FrameComplete

\* frames that render one of the five-drawable scenes
ScenarioNext ==
    \/ \E list \in ScenarioLists : UploadDrawables(list)
    \/ \E f \in Frusta : CullAndGenerateCommands(f)
    \/ RenderIndirect
    \/ FinishFrame
    \/ GpuClearBuffer
    \/ \E gid \in DrawableSlots : CullInvocation(gid)
    \/ \E m \in MeshSlots : GenerateInvocation(m)
    \/ \E gid \in DrawableSlots : GatherInvocation(gid)
    \/ EndComputePass
    \/ ExecuteRenderPass
    \/ FrameComplete

(***************************************************************************)
(* Byte layout of the drawable storage buffer                              *)
(***************************************************************************)
MaxStartIndex == 15
MaxUploadCount == 3

\* alignment of glam::Mat4: 16 with SIMD, 4 in a scalar-math build
Mat4Alignments == {4, 16}

\* variant: the struct without its explicit padding field
DrawableFields_NoPadding(mat4_align) ==
    << [name |-> "model_matrix", size |-> 64, align |-> mat4_align],
       [name |-> "primitive_index", size |-> 4, align |-> 4],
       [name |-> "material_id", size |-> 4, align |-> 4] >>

\* the fields of struct Drawable, in declaration order
DrawableFields(mat4_align) ==
    << [name |-> "model_matrix", size |-> 64, align |-> mat4_align],
       [name |-> "primitive_index", size |-> 4, align |-> 4],
       [name |-> "material_id", size |-> 4, align |-> 4],
       [name |-> "_padding", size |-> 8, align |-> 4] >>

RoundUp(n, a) == ((n + a - 1) \div a) * a

\* #[repr(C)]: the offset of field k, each field at the next multiple of its
\* alignment
RECURSIVE FieldOffset(_, _)
FieldOffset(fields, k) ==
    IF k = 1 THEN 0
    ELSE RoundUp(FieldOffset(fields, k - 1) + fields[k - 1].size, fields[k].align)

RECURSIVE MaxAlign(_, _)
MaxAlign(fields, k) ==
    IF k = 0 THEN 1
    ELSE LET rest == MaxAlign(fields, k - 1)
         IN IF fields[k].align > rest THEN fields[k].align ELSE rest

\* std::mem::size_of::<Drawable>()
SizeOfDrawable(mat4_align) ==
    LET fields == DrawableFields(mat4_align)
        n == Len(fields)
    IN RoundUp(FieldOffset(fields, n) + fields[n].size, MaxAlign(fields, n))

\* no upload is under way
NoUpload ==
    byte_upload = [mat4_align |-> 16, start_index |-> 0, count |-> 0,
                   written |-> FALSE, offset |-> 0, record_offsets |-> <<>>]

\* DrawableStorageBuffer::write_drawables_at_offset: the byte offset handed to
\* Queue::write_buffer and the offset of each record of the slice behind it
WriteDrawableBytes ==
    /\ ~byte_upload.written
    /\ byte_upload' =
          IF byte_upload.count = 0
          THEN [byte_upload EXCEPT !.written = TRUE]
          ELSE LET size == SizeOfDrawable(byte_upload.mat4_align)
                   offset == byte_upload.start_index * size
               IN [byte_upload EXCEPT
                      !.written = TRUE,
                      !.offset = offset,
                      !.record_offsets =
                         [i \in 1 .. byte_upload.count |-> offset + (i - 1) * size]]
    /\ UNCHANGED <<sceneVars, gpuVars, assetVars, testVars, unitVars, restVars, renderVars>>

(***************************************************************************)
(* glTF import into the scene                                              *)
(***************************************************************************)
\* the documents handed to spawn_gltf_scene and the mesh indices in each
GltfDocuments == {1, 2}
GltfMeshIndices == {0, 1}
\* node.mesh() of a node without a mesh
NoMesh == -1

GltfNode(mesh, children) == [mesh |-> mesh, children |-> children]

\* the scenes of a document: lists of root nodes
GltfScenes ==
    { << GltfNode(0, <<>>) >>,
      << GltfNode(1, << GltfNode(0, <<>>) >>) >>,
      << GltfNode(NoMesh, << GltfNode(1, <<>>) >>), GltfNode(0, <<>>) >> }

\* Scene::new as far as the importer is concerned
ImportInit ==
    /\ scene_models = <<>>
    /\ gltf_mesh_to_model = [m \in GltfMeshIndices |-> 0]
    /\ gltf_objects = <<>>

\* Scene::spawn_gltf_node on the importer state st = [models, map, objs]
RECURSIVE GltfSpawnNode(_, _, _, _), GltfSpawnChildren(_, _, _, _, _)
GltfSpawnNode(st, document, node, parent) ==
    LET cached == IF node.mesh = NoMesh THEN 0 ELSE st.map[node.mesh]
        st1 == IF node.mesh = NoMesh \/ cached # 0 THEN st
               ELSE [st EXCEPT
                        !.models = Append(@, [document |-> document, mesh |-> node.mesh]),
                        !.map = [@ EXCEPT ![node.mesh] = Len(st.models) + 1]]
        mesh_id == IF node.mesh = NoMesh THEN 0 ELSE st1.map[node.mesh]
        st2 == [st1 EXCEPT !.objs = Append(@, [document |-> document, mesh |-> node.mesh,
                                                model_id |-> mesh_id,
                                                parent_id |-> parent])]
    IN GltfSpawnChildren(st2, document, node.children, 1, Len(st2.objs))

GltfSpawnChildren(st, document, kids, i, parent) ==
    IF i > Len(kids) THEN st
    ELSE GltfSpawnChildren(GltfSpawnNode(st, document, kids[i], parent),
                           document, kids, i + 1, parent)

RECURSIVE GltfSpawnRoots(_, _, _, _)
GltfSpawnRoots(st, document, nodes, i) ==
    IF i > Len(nodes) THEN st
    ELSE GltfSpawnRoots(GltfSpawnNode(st, document, nodes[i], 0), document, nodes, i + 1)

\* Scene::spawn_gltf_scene
SpawnGltfScene(document, scene) ==
    /\ Len(gltf_objects) < MaxGltfObjects
    /\ LET st == GltfSpawnRoots([models |-> scene_models, map |-> gltf_mesh_to_model,
                                 objs |-> gltf_objects], document, scene, 1)
       IN /\ scene_models' = st.models
          /\ gltf_mesh_to_model' = st.map
          /\ gltf_objects' = st.objs

ImportNext == \E document \in GltfDocuments, scene \in GltfScenes :
                 SpawnGltfScene(document, scene)

(***************************************************************************)
(* Instance groups and the instance manager (rendering/instancing)         *)
(***************************************************************************)
\* ids of the render models, and the instance data (world matrices) in use
RenderModelIds == {1, 2}
InstanceMatrices == {<<1, 0>>, <<1, 2>>}
\* a slot of a freshly created storage buffer
ZeroInstance == <<0, 0>>

\* BTreeMap::new()
EmptyModelGroups == [k \in {} |-> <<>>]

\* InstanceStorageBuffer::new
InstanceStorageBufferNew(capacity) ==
    [capacity |-> capacity, data |-> [i \in 0 .. capacity - 1 |-> ZeroInstance]]

\* InstanceGroup::new
InstanceGroupNew(instance_type, initial_capacity) ==
    [instance_type |-> instance_type,
     model_groups |-> EmptyModelGroups,
     batches |-> <<>>,
     storage_buffer |-> InstanceStorageBufferNew(initial_capacity),
     needs_rebuild |-> TRUE]

\* InstanceGroup::clear
GroupClear(group) == [group EXCEPT !.model_groups = EmptyModelGroups]

\* InstanceGroup::clear_model_groups
ClearModelGroups(group) ==
    [group EXCEPT !.model_groups = [k \in DOMAIN @ |-> <<>>]]

\* InstanceGroup::retain_non_empty_groups
RetainNonEmptyGroups(group) ==
    LET mg == group.model_groups
    IN [group EXCEPT !.model_groups = [k \in {j \in DOMAIN mg : mg[j] # <<>>} |-> mg[k]]]

\* InstanceGroup::add_instance
GroupAddInstance(group, model_id, instance) ==
    LET mg == group.model_groups
    IN [group EXCEPT !.model_groups =
           [k \in DOMAIN mg \cup {model_id} |->
               IF k = model_id
               THEN Append(IF k \in DOMAIN mg THEN mg[k] ELSE <<>>, instance)
               ELSE mg[k]]]

\* InstanceGroup::instance_count is the sum of these
GroupCount(mg, k) == Len(mg[k])

MinKey(keys) == CHOOSE k \in keys : \A j \in keys : k <= j

\* variant: every batch starts at index 0
RECURSIVE PushBatches_NoAdvance(_, _, _, _)
PushBatches_NoAdvance(instance_type, mg, keys, current_index) ==
    IF keys = {} THEN <<>>
    ELSE LET k == MinKey(keys)
         IN IF mg[k] # <<>>
            THEN << [instance_type |-> instance_type, render_model_id |-> k,
                     start_index |-> current_index,
                     instance_count |-> GroupCount(mg, k)] >>
                 \o PushBatches_NoAdvance(instance_type, mg, keys \ {k}, current_index)
            ELSE PushBatches_NoAdvance(instance_type, mg, keys \ {k}, current_index)

\* the first loop of rebuild_and_upload: the model groups in key order
RECURSIVE PushBatches(_, _, _, _)
PushBatches(instance_type, mg, keys, current_index) ==
    IF keys = {} THEN <<>>
    ELSE LET k == MinKey(keys)
         IN IF mg[k] # <<>>
            THEN << [instance_type |-> instance_type, render_model_id |-> k,
                     start_index |-> current_index,
                     instance_count |-> GroupCount(mg, k)] >>
                 \o PushBatches(instance_type, mg, keys \ {k},
                                current_index + GroupCount(mg, k))
            ELSE PushBatches(instance_type, mg, keys \ {k}, current_index)

RECURSIVE TotalInstances(_, _)
TotalInstances(batches, i) ==
    IF i > Len(batches) THEN 0
    ELSE batches[i].instance_count + TotalInstances(batches, i + 1)

\* InstanceStorageBuffer::ensure_capacity
EnsureCapacity(storage_buffer, required_capacity) ==
    IF required_capacity > storage_buffer.capacity
    THEN InstanceStorageBufferNew(required_capacity * 2)
    ELSE storage_buffer

\* InstanceStorageBuffer::write_instances_at_offset
WriteInstancesAtOffset(storage_buffer, instances, start_index) ==
    IF instances = <<>> THEN storage_buffer
    ELSE [storage_buffer EXCEPT !.data =
             [i \in DOMAIN @ |->
                 IF i >= start_index /\ i < start_index + Len(instances)
                 THEN instances[i - start_index + 1]
                 ELSE @[i]]]

\* the second loop of rebuild_and_upload
RECURSIVE UploadBatches(_, _, _, _)
UploadBatches(storage_buffer, mg, batches, i) ==
    IF i > Len(batches) THEN storage_buffer
    ELSE LET batch == batches[i]
             written == IF batch.render_model_id \in DOMAIN mg
                        THEN WriteInstancesAtOffset(storage_buffer,
                                                    mg[batch.render_model_id],
                                                    batch.start_index)
                        ELSE storage_buffer
         IN UploadBatches(written, mg, batches, i + 1)

\* InstanceGroup::rebuild_and_upload
RebuildAndUpload(group) ==
    LET mg == group.model_groups
        batches == PushBatches(group.instance_type, mg, DOMAIN mg, 0)
        total_instances == TotalInstances(batches, 1)
        ensured == EnsureCapacity(group.storage_buffer, total_instances)
    IN [group EXCEPT !.batches = batches,
                     !.storage_buffer = UploadBatches(ensured, mg, batches, 1),
                     !.needs_rebuild = FALSE]

\* one InstanceGroup driven through its public methods
InstanceGroupAddInstance(model_id, instance) ==
    /\ \A k \in DOMAIN dynamic_group.model_groups :
          Len(dynamic_group.model_groups[k]) < MaxGroupInstances
    /\ dynamic_group' = GroupAddInstance(dynamic_group, model_id, instance)
    /\ UNCHANGED <<inst_objects, static_group>>

InstanceGroupClear ==
    /\ dynamic_group' = GroupClear(dynamic_group)
    /\ UNCHANGED <<inst_objects, static_group>>

InstanceGroupClearModelGroups ==
    /\ dynamic_group' = ClearModelGroups(dynamic_group)
    /\ UNCHANGED <<inst_objects, static_group>>

InstanceGroupRetainNonEmptyGroups ==
    /\ dynamic_group' = RetainNonEmptyGroups(dynamic_group)
    /\ UNCHANGED <<inst_objects, static_group>>

InstanceGroupRebuildAndUpload ==
    /\ dynamic_group' = RebuildAndUpload(dynamic_group)
    /\ UNCHANGED <<inst_objects, static_group>>

InstanceGroupNext ==
    \/ \E model_id \in RenderModelIds, instance \in InstanceMatrices :
          InstanceGroupAddInstance(model_id, instance)
    \/ InstanceGroupClear
    \/ InstanceGroupClearModelGroups
    \/ InstanceGroupRetainNonEmptyGroups
    \/ InstanceGroupRebuildAndUpload

\* the instance types, and the render model of an object (0: the object has no
\* model, or its model has no render model yet)
InstanceTypes == {"Static", "Dynamic"}
ObjectRenderModels == {0} \cup RenderModelIds

\* InstanceManager::process_objects
RECURSIVE ProcessObjects(_, _, _, _)
ProcessObjects(group, objs, i, instance_type) ==
    IF i > Len(objs) THEN group
    ELSE LET object == objs[i]
         IN IF ~object.enabled \/ object.instance_type # instance_type
               \/ object.render_model = 0
            THEN ProcessObjects(group, objs, i + 1, instance_type)
            ELSE ProcessObjects(GroupAddInstance(group, object.render_model,
                                                 object.world_matrix),
                                objs, i + 1, instance_type)

\* InstanceManager::process_dynamic_objects
ProcessDynamicObjects(group, objs) ==
    ProcessObjects(ClearModelGroups(group), objs, 1, "Dynamic")

\* InstanceManager::rebuild_static_objects
RebuildStaticObjects(group, objs) ==
    ProcessObjects(GroupClear(group), objs, 1, "Static")

\* variant: the static objects are gathered on every call
GatherInstancesFromScene_AlwaysStatic(manager, objs) ==
    [static_group |-> RetainNonEmptyGroups(RebuildStaticObjects(manager.static_group, objs)),
     dynamic_group |-> RetainNonEmptyGroups(ProcessDynamicObjects(manager.dynamic_group, objs))]

\* InstanceManager::gather_instances_from_scene
GatherInstancesFromScene(manager, objs) ==
    LET dynamic == ProcessDynamicObjects(manager.dynamic_group, objs)
        static == IF manager.static_group.needs_rebuild
                  THEN RebuildStaticObjects(manager.static_group, objs)
                  ELSE manager.static_group
    IN [static_group |-> RetainNonEmptyGroups(static),
        dynamic_group |-> RetainNonEmptyGroups(dynamic)]

\* InstanceManager::determine_update_strategy: the strategy, and the manager
\* with the dynamic group marked for rebuild
DetermineUpdateStrategy(manager) ==
    [strategy |-> IF manager.static_group.needs_rebuild
                  THEN "UpdateAll" ELSE "DynamicOnly",
     manager |-> [manager EXCEPT !.dynamic_group.needs_rebuild = TRUE]]

\* InstanceManager::update_gpu_data
UpdateGpuData(manager, strategy) ==
    IF strategy = "DynamicOnly"
    THEN [manager EXCEPT !.dynamic_group = RebuildAndUpload(@)]
    ELSE [manager EXCEPT !.static_group = RebuildAndUpload(@),
                         !.dynamic_group = RebuildAndUpload(@)]

\* InstanceManager::update_from_scene
InstanceManagerUpdateFromScene ==
    /\ LET gathered == GatherInstancesFromScene(
                          [static_group |-> static_group,
                           dynamic_group |-> dynamic_group], inst_objects)
           determined == DetermineUpdateStrategy(gathered)
           updated == UpdateGpuData(determined.manager, determined.strategy)
       IN /\ static_group' = updated.static_group
          /\ dynamic_group' = updated.dynamic_group
    /\ UNCHANGED inst_objects

\* InstanceManager::request_static_rebuild
RequestStaticRebuild ==
    /\ static_group' = [static_group EXCEPT !.needs_rebuild = TRUE]
    /\ UNCHANGED <<inst_objects, dynamic_group>>

\* the application adds an object to the scene
InstanceSceneSpawn(instance_type, enabled, render_model, world_matrix) ==
    /\ Len(inst_objects) < MaxInstanceObjects
    /\ inst_objects' = Append(inst_objects,
                              [instance_type |-> instance_type, enabled |-> enabled,
                               render_model |-> render_model,
                               world_matrix |-> world_matrix])
    /\ UNCHANGED <<static_group, dynamic_group>>

\* the application moves an object and late_update stores its world matrix
InstanceSceneMove(i, world_matrix) ==
    /\ inst_objects[i].world_matrix # world_matrix
    /\ inst_objects' = [inst_objects EXCEPT ![i].world_matrix = world_matrix]
    /\ UNCHANGED <<static_group, dynamic_group>>

InstancingNext ==
    \/ \E t \in InstanceTypes, e \in BOOLEAN, m \in ObjectRenderModels,
          w \in InstanceMatrices : InstanceSceneSpawn(t, e, m, w)
    \/ \E i \in 1 .. Len(inst_objects), w \in InstanceMatrices : InstanceSceneMove(i, w)
    \/ InstanceManagerUpdateFromScene
    \/ RequestStaticRebuild

\* InstanceManager::new, and a scene without objects
InstancingInit ==
    /\ inst_objects = <<>>
    /\ static_group = InstanceGroupNew("Static", InitialStaticCapacity)
    /\ dynamic_group = InstanceGroupNew("Dynamic", InitialDynamicCapacity)

(***************************************************************************)
(* The change-tracking instance manager (rendering/instance_manager.rs)    *)
(***************************************************************************)
\* ModelInstanceGroup::new
ModelInstanceGroupNew == [instances |-> <<>>, last_frame_count |-> 0, has_changes |-> FALSE]

\* ModelInstanceGroup::clear
ModelInstanceGroupClear(group) == [group EXCEPT !.instances = <<>>, !.has_changes = FALSE]

\* ModelInstanceGroup::add_instance
ModelInstanceGroupAddInstance(group, instance) ==
    [group EXCEPT !.instances = Append(@, instance), !.has_changes = TRUE]

\* ModelInstanceGroup::mark_changed
MarkChanged(group) == [group EXCEPT !.has_changes = TRUE]

\* ModelInstanceGroup::finalize_frame
FinalizeFrame(group) ==
    [group EXCEPT !.last_frame_count = Len(group.instances), !.has_changes = FALSE]

\* the value 0 that last_batch_layout_hash starts with; the hash of a layout is
\* the list of (model index, instance count) pairs fed to the hasher, which
\* takes DefaultHasher to give different layouts different values, none of them 0
ZeroHash == << <<0, 0>> >>

\* InstanceStorageBuffer::ensure_capacity of the change-tracking manager
TrackingEnsureCapacity(storage_buffer, required_capacity) ==
    IF required_capacity > storage_buffer.capacity
    THEN LET doubled == required_capacity * 2
         IN InstanceStorageBufferNew(IF doubled > INITIAL_CAPACITY
                                     THEN doubled ELSE INITIAL_CAPACITY)
    ELSE storage_buffer

\* the loop over scene.objects in gather_instances_from_scene
RECURSIVE CollectInstances(_, _, _)
CollectInstances(mg, objs, i) ==
    IF i > Len(objs) THEN mg
    ELSE LET object == objs[i]
         IN IF object.render_model = 0 THEN CollectInstances(mg, objs, i + 1)
            ELSE LET k == object.render_model
                     group == IF k \in DOMAIN mg THEN mg[k] ELSE ModelInstanceGroupNew
                     added == ModelInstanceGroupAddInstance(group, object.world_matrix)
                     marked == IF object.has_changed THEN MarkChanged(added) ELSE added
                 IN CollectInstances([j \in DOMAIN mg \cup {k} |->
                                         IF j = k THEN marked ELSE mg[j]],
                                     objs, i + 1)

\* InstanceManager::gather_instances_from_scene
TrackingGatherInstancesFromScene(mg, objs) ==
    LET cleared == [k \in DOMAIN mg |-> ModelInstanceGroupClear(mg[k])]
        collected == CollectInstances(cleared, objs, 1)
    IN [k \in {j \in DOMAIN collected : collected[j].instances # <<>>} |-> collected[k]]

\* InstanceManager::calculate_batch_layout_hash
RECURSIVE HashLayout(_, _)
HashLayout(mg, keys) ==
    IF keys = {} THEN <<>>
    ELSE LET k == MinKey(keys)
         IN << <<k, Len(mg[k].instances)>> >> \o HashLayout(mg, keys \ {k})

CalculateBatchLayoutHash(mg) == HashLayout(mg, DOMAIN mg)

\* InstanceManager::determine_update_strategy: the strategy and the stored hash
TrackingDetermineUpdateStrategy(manager) ==
    LET current_layout_hash == CalculateBatchLayoutHash(manager.model_groups)
        changed_count == Cardinality({k \in DOMAIN manager.model_groups :
                                         manager.model_groups[k].has_changes})
    IN IF current_layout_hash # manager.last_batch_layout_hash
       THEN [strategy |-> [kind |-> "FullRebuild", changed_batches |-> 0],
             last_batch_layout_hash |-> current_layout_hash]
       ELSE IF changed_count = 0
       THEN [strategy |-> [kind |-> "None", changed_batches |-> 0],
             last_batch_layout_hash |-> manager.last_batch_layout_hash]
       ELSE [strategy |-> [kind |-> "Incremental", changed_batches |-> changed_count],
             last_batch_layout_hash |-> manager.last_batch_layout_hash]

\* the batches built by rebuild_batches_and_upload_all, models sorted by index
RECURSIVE TrackingBuildBatches(_, _, _)
TrackingBuildBatches(mg, keys, current_index) ==
    IF keys = {} THEN <<>>
    ELSE LET k == MinKey(keys)
             n == Len(mg[k].instances)
         IN IF n # 0
            THEN << [render_model_id |-> k, start_index |-> current_index,
                     instance_count |-> n] >>
                 \o TrackingBuildBatches(mg, keys \ {k}, current_index + n)
            ELSE TrackingBuildBatches(mg, keys \ {k}, current_index)

RECURSIVE AllInstances(_, _, _)
AllInstances(mg, batches, i) ==
    IF i > Len(batches) THEN <<>>
    ELSE (IF batches[i].render_model_id \in DOMAIN mg
          THEN mg[batches[i].render_model_id].instances ELSE <<>>)
         \o AllInstances(mg, batches, i + 1)

\* InstanceManager::rebuild_batches_and_upload_all: the manager, and the
\* write_buffer calls made
RebuildBatchesAndUploadAll(manager) ==
    LET mg == manager.model_groups
        batches == TrackingBuildBatches(mg, DOMAIN mg, 0)
        all_instances == AllInstances(mg, batches, 1)
        ensured == TrackingEnsureCapacity(manager.storage_buffer, Len(all_instances))
    IN [manager |-> [manager EXCEPT
                        !.batches = batches,
                        !.storage_buffer = WriteInstancesAtOffset(ensured, all_instances, 0)],
        uploads |-> IF all_instances = <<>> THEN <<>>
                    ELSE << [start_index |-> 0, instances |-> all_instances] >>]

\* InstanceManager::upload_changed_batches
RECURSIVE UploadChangedBatches(_, _, _)
UploadChangedBatches(manager, i, written) ==
    IF i > Len(manager.batches) THEN [manager |-> manager, uploads |-> written]
    ELSE LET batch == manager.batches[i]
             mg == manager.model_groups
         IN IF batch.render_model_id \in DOMAIN mg
               /\ mg[batch.render_model_id].has_changes
               /\ mg[batch.render_model_id].instances # <<>>
            THEN UploadChangedBatches(
                    [manager EXCEPT !.storage_buffer =
                        WriteInstancesAtOffset(@, mg[batch.render_model_id].instances,
                                               batch.start_index)],
                    i + 1,
                    Append(written, [start_index |-> batch.start_index,
                                     instances |-> mg[batch.render_model_id].instances]))
            ELSE UploadChangedBatches(manager, i + 1, written)

\* InstanceManager::update_gpu_data
TrackingUpdateGpuData(manager, strategy) ==
    LET done_upload ==
           IF strategy.kind = "None" THEN [manager |-> manager, uploads |-> <<>>]
           ELSE IF strategy.kind = "FullRebuild" THEN RebuildBatchesAndUploadAll(manager)
           ELSE UploadChangedBatches(manager, 1, <<>>)
    IN [manager |-> [done_upload.manager EXCEPT
                        !.model_groups = [k \in DOMAIN @ |-> FinalizeFrame(@[k])]],
        uploads |-> done_upload.uploads]

\* InstanceManager::update_from_scene
TrackingUpdateFromScene ==
    /\ tracker.frame_counter < MaxFrames
    /\ LET counted == [tracker EXCEPT !.frame_counter = @ + 1]
           gathered == [counted EXCEPT !.model_groups =
                           TrackingGatherInstancesFromScene(@, track_objects)]
           determined == TrackingDetermineUpdateStrategy(gathered)
           hashed == [gathered EXCEPT !.last_batch_layout_hash =
                         determined.last_batch_layout_hash]
           updated == TrackingUpdateGpuData(hashed, determined.strategy)
       IN /\ tracker' = updated.manager
          /\ update_strategy' = determined.strategy
          /\ uploads' = updated.uploads
    /\ UNCHANGED track_objects

\* the application adds an object; a new transform reports has_changed
TrackingSceneSpawn(render_model, world_matrix) ==
    /\ Len(track_objects) < MaxTrackObjects
    /\ track_objects' = Append(track_objects,
                               [render_model |-> render_model,
                                world_matrix |-> world_matrix, has_changed |-> TRUE])
    /\ UNCHANGED <<tracker, update_strategy, uploads>>

\* a setter and the late_update behind it: set_world_matrix stores the matrix
\* and sets the changed flag
TrackingSceneMove(i, world_matrix) ==
    /\ track_objects' = [track_objects EXCEPT ![i].world_matrix = world_matrix,
                                              ![i].has_changed = TRUE]
    /\ UNCHANGED <<tracker, update_strategy, uploads>>

\* Scene::early_update of the next frame: reset_flags on every transform
TrackingSceneEarlyUpdate ==
    /\ \E i \in 1 .. Len(track_objects) : track_objects[i].has_changed
    /\ track_objects' = [i \in 1 .. Len(track_objects) |->
                            [track_objects[i] EXCEPT !.has_changed = FALSE]]
    /\ UNCHANGED <<tracker, update_strategy, uploads>>

TrackingNext ==
    \/ \E m \in ObjectRenderModels, w \in InstanceMatrices : TrackingSceneSpawn(m, w)
    \/ \E i \in 1 .. Len(track_objects), w \in InstanceMatrices : TrackingSceneMove(i, w)
    \/ TrackingSceneEarlyUpdate
    \/ TrackingUpdateFromScene

\* InstanceManager::new of the change-tracking manager, and an empty scene
TrackingInit ==
    /\ track_objects = <<>>
    /\ tracker = [model_groups |-> [k \in {} |-> ModelInstanceGroupNew],
                  batches |-> <<>>,
                  storage_buffer |-> InstanceStorageBufferNew(INITIAL_CAPACITY),
                  frame_counter |-> 0,
                  last_batch_layout_hash |-> ZeroHash]
    /\ update_strategy = [kind |-> "None", changed_batches |-> 0]
    /\ uploads = <<>>

(***************************************************************************)
(* Shader hot reload (rendering/shader_loader.rs)                          *)
(***************************************************************************)
\* the pipeline ids of the cache; shader i of the arena belongs to pipeline i
PipelineIds == {1, 2}

\* ShaderLoader::new has returned: create_all_pipelines has compiled the first
\* version of every file and installed it, nothing is in flight
ShaderLoaderNew ==
    /\ shader_files = [id \in PipelineIds |-> [version |-> 1, valid |-> TRUE]]
    /\ pipeline_cache = [id \in PipelineIds |-> 1]
    /\ receiver = <<>>
    /\ watcher_events = <<>>
    /\ loader_pc = "idle"
    /\ last_compiled = [id \in PipelineIds |-> 0]
    /\ drained = <<>>

\* compile_file: the pipeline built from the text now in the file, or an error
CompileFile(id) ==
    IF shader_files[id].valid
    THEN [ok |-> TRUE, pipeline |-> shader_files[id].version]
    ELSE [ok |-> FALSE, pipeline |-> 0]

\* PipelineCacheEntry::set_pipeline
SetPipeline(pipelines, id, pipeline) == [pipelines EXCEPT ![id] = pipeline]

\* variant: the newest message of the channel is received first
TryRecv_Newest(channel) ==
    [message |-> channel[Len(channel)], rest |-> SubSeq(channel, 1, Len(channel) - 1)]

\* Receiver::try_recv on a channel that is not empty: the oldest message
TryRecv(channel) == [message |-> Head(channel), rest |-> Tail(channel)]

\* somebody saves a shader file; the debouncer reports a path once per batch
EditShaderFile(id, valid) ==
    /\ shader_files[id].version < MaxShaderVersions
    /\ shader_files' = [shader_files EXCEPT ![id] = [version |-> @.version + 1,
                                                      valid |-> valid]]
    /\ watcher_events' = IF \E i \in 1 .. Len(watcher_events) : watcher_events[i] = id
                         THEN watcher_events ELSE Append(watcher_events, id)
    /\ UNCHANGED <<pipeline_cache, receiver, loader_pc, last_compiled, drained>>

\* the debouncer callback on the watcher thread, for one event: the shader of
\* the path is compiled and the pipeline sent, or the error printed
WatcherHandleEvent ==
    /\ watcher_events # <<>>
    /\ LET id == Head(watcher_events)
           compiled == CompileFile(id)
       IN /\ receiver' = IF compiled.ok
                         THEN Append(receiver, [pipeline_id |-> id,
                                                pipeline |-> compiled.pipeline])
                         ELSE receiver
          /\ last_compiled' = IF compiled.ok
                              THEN [last_compiled EXCEPT ![id] = compiled.pipeline]
                              ELSE last_compiled
    /\ watcher_events' = Tail(watcher_events)
    /\ UNCHANGED <<shader_files, pipeline_cache, loader_pc, drained>>

\* one turn of the loop of load_pending_shaders: a message is received and
\* its pipeline installed
LoadPendingShadersReceive ==
    /\ receiver # <<>>
    /\ LET received == TryRecv(receiver)
       IN /\ pipeline_cache' = SetPipeline(pipeline_cache, received.message.pipeline_id,
                                           received.message.pipeline)
          /\ receiver' = received.rest
          /\ drained' = IF loader_pc = "idle" THEN <<received.message>>
                        ELSE Append(drained, received.message)
    /\ loader_pc' = "draining"
    /\ UNCHANGED <<shader_files, watcher_events, last_compiled>>

\* load_pending_shaders finds the channel empty and returns
LoadPendingShadersReturn ==
    /\ receiver = <<>>
    /\ loader_pc = "draining"
    /\ loader_pc' = "idle"
    /\ UNCHANGED <<shader_files, pipeline_cache, receiver, watcher_events,
                   last_compiled, drained>>

ShaderNext ==
    \/ \E id \in PipelineIds, valid \in BOOLEAN : EditShaderFile(id, valid)
    \/ WatcherHandleEvent
    \/ LoadPendingShadersReceive
    \/ LoadPendingShadersReturn

RestInit == ImportInit /\ InstancingInit /\ TrackingInit /\ ShaderLoaderNew

Init == SceneInit /\ GpuInit /\ AssetInit /\ TestInit /\ UnitInit /\ RendererNewFullAdapter /\ RestInit /\ NoUpload
Next ==
    SceneNext /\ UNCHANGED <<gpuVars, assetVars, testVars, unitVars, restVars, renderVars, layoutVars>>
vars == <<sceneVars, gpuVars, assetVars, testVars, unitVars, restVars, renderVars, layoutVars>>
Spec == Init /\ [][Next]_vars

\* the frames of the renderer on the GPU timeline
GpuSpec == Init /\ [][GpuNext /\ UNCHANGED <<sceneVars, assetVars, testVars, unitVars, restVars, layoutVars>>]_vars

ScenarioSpec ==
    Init /\ [][ScenarioNext /\ UNCHANGED <<sceneVars, assetVars, testVars, unitVars, restVars, layoutVars>>]_vars

CapacitySpec ==
    Init /\ [][CapacityNext /\ UNCHANGED <<sceneVars, assetVars, testVars, unitVars, restVars, layoutVars>>]_vars

\* the frames of the renderer on adapters with and without the optional
\* draw-count feature
DrawInit ==
    /\ SceneInit /\ GpuInit /\ AssetInit /\ TestInit /\ UnitInit /\ NoUpload /\ RestInit
    /\ RendererNew
DrawSpec ==
    DrawInit
    /\ [][GpuNext /\ UNCHANGED <<sceneVars, assetVars, testVars, unitVars, restVars, layoutVars>>]_vars

\* start-up: the models of the application are baked and the mesh buffers created
LoadInit ==
    /\ SceneInit /\ GpuInit /\ TestInit /\ UnitInit /\ RendererNewFullAdapter /\ RestInit /\ NoUpload
    /\ models_to_bake \in ModelLists
    /\ mesh_buffer = [created |-> FALSE, meshes |-> <<>>]
LoadNext == CreateMeshBuffers
LoadSpec == LoadInit /\ [][LoadNext]_vars

\* one upload of a slice of records at a start index
LayoutInit ==
    /\ SceneInit /\ GpuInit /\ AssetInit /\ TestInit /\ UnitInit /\ RendererNewFullAdapter /\ RestInit
    /\ \E a \in Mat4Alignments, s \in 0 .. MaxStartIndex, n \in 0 .. MaxUploadCount :
          byte_upload = [mat4_align |-> a, start_index |-> s, count |-> n,
                         written |-> FALSE, offset |-> 0, record_offsets |-> <<>>]
LayoutNext == WriteDrawableBytes
LayoutSpec == LayoutInit /\ [][LayoutNext]_vars

\* one Transform used through its public methods
TransformInit ==
    /\ SceneInit /\ GpuInit /\ AssetInit /\ TestInit /\ RendererNewFullAdapter /\ RestInit /\ NoUpload
    /\ \E t \in UnitTranslations : unit_transform = TransformFromTranslation(t)
    /\ local_matrix_read = NoRead
TransformSpec ==
    TransformInit
    /\ [][TransformNext /\ UNCHANGED <<sceneVars, gpuVars, assetVars, testVars, restVars,
                                      renderVars, layoutVars>>]_vars

\* the application spawns scenes of glTF documents into one Scene
ImportSpec ==
    Init
    /\ [][ImportNext /\ UNCHANGED <<sceneVars, gpuVars, assetVars, testVars, unitVars,
                                    renderVars, layoutVars, instancingVars,
                                    trackingVars, shaderVars>>]_vars

\* the frames of an application that renders through the instance manager
InstancingSpec ==
    Init
    /\ [][InstancingNext /\ UNCHANGED <<sceneVars, gpuVars, assetVars, testVars,
                                        unitVars, renderVars, layoutVars,
                                        importVars, trackingVars, shaderVars>>]_vars

\* the frames of an application that renders through the change-tracking manager
TrackingSpec ==
    Init
    /\ [][TrackingNext /\ UNCHANGED <<sceneVars, gpuVars, assetVars, testVars,
                                      unitVars, renderVars, layoutVars,
                                      importVars, instancingVars, shaderVars>>]_vars

\* shader files are edited while the application renders
ShaderSpec ==
    Init
    /\ [][ShaderNext /\ UNCHANGED <<sceneVars, gpuVars, assetVars, testVars,
                                    unitVars, renderVars, layoutVars,
                                    importVars, instancingVars, trackingVars>>]_vars

\* one InstanceGroup used through its public methods
InstanceGroupSpec ==
    Init
    /\ [][InstanceGroupNext /\ UNCHANGED <<sceneVars, gpuVars, assetVars, testVars,
                                           unitVars, renderVars, layoutVars,
                                           importVars, trackingVars, shaderVars>>]_vars

\* the frustum test applied to one box, world matrix and frustum
CullTestInit ==
    /\ SceneInit /\ GpuInit /\ AssetInit /\ UnitInit /\ RendererNewFullAdapter /\ RestInit /\ NoUpload
    /\ test_aabb \in TestBoxes
    /\ test_transform \in TestTransforms
    /\ test_frustum \in TestFrusta
    /\ test_visible = "untested"
CullTestNext == TestFrustumIntersection
CullTestSpec == CullTestInit /\ [][CullTestNext]_vars

(***************************************************************************)
(* Reference notions used by the properties                                *)
(***************************************************************************)
Running == pc # "crashed"

\* the local matrix the current translation / rotation / scale stand for
TrueLocal(objs, id) ==
    FromScaleRotationTranslation(objs[id].transform.scale,
                                 objs[id].transform.rotation,
                                 objs[id].transform.translation)

\* product of the current local matrices along the ancestor chain, root first
RECURSIVE ChainWorld(_, _)
ChainWorld(objs, id) ==
    IF objs[id].parent_id = 0 THEN TrueLocal(objs, id)
    ELSE MatMul(ChainWorld(objs, objs[id].parent_id), TrueLocal(objs, id))

WorldDirty(objs, id) == objs[id].transform.world_dirty
WorldOf(objs, id) == objs[id].transform.world_matrix

(***************************************************************************)
(* C2: after Scene::late_update every object's world matrix equals its     *)
(* parent's world matrix times its own local matrix, and a root's world    *)
(* matrix equals its local matrix.                                         *)
(***************************************************************************)
C2_WorldIsParentTimesLocal ==
    pc = "late_done" =>
        \A i \in ObjectIds :
            WorldOf(objects, i) =
                IF objects[i].parent_id = 0
                THEN TrueLocal(objects, i)
                ELSE MatMul(WorldOf(objects, objects[i].parent_id), TrueLocal(objects, i))

\* propagated three-level chain in which parent * local differs from local * parent
C2_Witness ==
    /\ pc = "late_done"
    /\ \E i \in ObjectIds :
          LET p == objects[i].parent_id
          IN /\ p # 0
             /\ objects[p].parent_id # 0
             /\ MatMul(WorldOf(objects, p), TrueLocal(objects, i))
                  # MatMul(TrueLocal(objects, i), WorldOf(objects, p))

(***************************************************************************)
(* C6: a transform setter or invalidate_object_hierarchy applied to o      *)
(* leaves o and every transitive descendant of o world-dirty when the call *)
(* returns, and leaves the dirty flags of every other object unchanged.    *)
(***************************************************************************)
C6_IsInvalidatingCall(id) ==
    \/ InvalidateHierarchy(id)
    \/ \E t \in TranslationValues : SetObjectTranslation(id, t)
    \/ \E r \in RotationValues : SetObjectRotation(id, r)
    \/ \E s \in ScaleValues : SetObjectScale(id, s)
    \/ \E t \in TranslationValues, r \in RotationValues, s \in ScaleValues :
          SetObjectTransform(id, t, r, s)

C6_Effect(id) ==
    LET subtree == Descendants(objects, id) \cup {id}
    IN /\ \A x \in subtree : objects'[x].transform.world_dirty
       /\ \A x \in ObjectIds \ subtree :
             /\ objects'[x].transform.world_dirty = objects[x].transform.world_dirty
             /\ objects'[x].transform.local_dirty = objects[x].transform.local_dirty

C6_InvalidationIsExactSubtree ==
    [][\A id \in ObjectIds : C6_IsInvalidatingCall(id) => C6_Effect(id)]_vars

\* a setter has hit a propagated object: it is local-dirty again, its propagated
\* child is world-dirty, and an object outside its subtree is still clean
C6_Witness ==
    \E o \in ObjectIds, c \in ObjectIds, u \in ObjectIds :
        /\ objects[c].parent_id = o
        /\ objects[o].transform.local_dirty
        /\ ~objects[c].transform.local_dirty
        /\ objects[c].transform.world_dirty
        /\ u \notin Descendants(objects, o) \cup {o}
        /\ ~objects[u].transform.world_dirty

(***************************************************************************)
(* C7: in every state the Scene API returns into, an object whose          *)
(* world_dirty flag is false holds the product of the current local        *)
(* matrices along its ancestor chain.                                      *)
(***************************************************************************)
C7_CleanWorldIsNotStale ==
    Running =>
        \A i \in ObjectIds :
            ~WorldDirty(objects, i) => WorldOf(objects, i) = ChainWorld(objects, i)

\* a clean child with a composed world matrix next to an object dirtied by a setter
C7_Witness ==
    /\ Running
    /\ \E i \in ObjectIds, j \in ObjectIds :
          /\ ~WorldDirty(objects, i)
          /\ objects[i].parent_id # 0
          /\ WorldOf(objects, i) # TrueLocal(objects, i)
          /\ WorldDirty(objects, j)
          /\ WorldOf(objects, j) # ChainWorld(objects, j)

(***************************************************************************)
(* C8: drawable extraction runs after late_update in the frame; when it    *)
(* reads world matrices no object is world-dirty, so every drawable record *)
(* carries a world matrix that is not stale.                               *)
(***************************************************************************)
\* the drawable list built from the matrices the scene stands for
RECURSIVE C8_FreshDrawables(_, _)
C8_FreshDrawables(objs, i) ==
    IF i > Len(objs) THEN <<>>
    ELSE LET o == objs[i]
         IN IF ~o.enabled \/ o.model_id = 0 \/ o.model_id > Len(SceneModels)
            THEN C8_FreshDrawables(objs, i + 1)
            ELSE PrimitiveDrawables(ChainWorld(objs, i), SceneModels[o.model_id], 1)
                 \o C8_FreshDrawables(objs, i + 1)

C8_ExtractionReadsNoStaleMatrix ==
    /\ pc = "late_done" => \A i \in ObjectIds : ~WorldDirty(objects, i)
    /\ pc = "frame_end" => drawables = C8_FreshDrawables(objects, 1)

\* a frame whose application phase moved a parent: the extracted child record
\* carries the recomposed matrix, which differs from the one of the frame before
C8_Witness ==
    /\ pc = "frame_end"
    /\ \E i \in ObjectIds :
          /\ objects[i].parent_id # 0
          /\ objects[i].enabled /\ objects[i].model_id # 0
          /\ objects[i].transform.has_changed_since_last_update
          /\ objects[objects[i].parent_id].transform.translation # 0
          /\ \E k \in 1 .. Len(drawables) :
                /\ drawables[k].model_matrix = ChainWorld(objects, i)
                /\ drawables[k].model_matrix # TrueLocal(objects, i)

(***************************************************************************)
(* Reference notions of the GPU properties                                 *)
(***************************************************************************)
Completed(pass) == \E k \in 1 .. Len(finished) : finished[k] = pass

Flagged(gid) == drawable_visibility_buffer[gid] = 1

\* the flagged records of the drawable buffer that reference mesh m
FlaggedOfMesh(m) ==
    {gid \in DrawableSlots : Flagged(gid) /\ all_drawables[gid].primitive_index = m}

\* [base_offset[m], base_offset[m] + visible_count[m])
MeshRange(m) ==
    base_offsets_buffer[m] ..
        base_offsets_buffer[m] + visible_drawables_by_mesh_buffer[m] - 1

RECURSIVE SumCounts(_, _)
SumCounts(counts, n) == IF n = 0 THEN 0 ELSE SumCounts(counts, n - 1) + counts[n - 1]

MeshesWithVisible == {m \in MeshSlots : visible_drawables_by_mesh_buffer[m] > 0}

\* the command is the one of mesh m (meshes differ in their first index)
IsCommandOf(command, m) ==
    /\ m \in MeshIndices
    /\ command.first_index = MeshTable[m + 1].first_index
    /\ command.index_count = MeshTable[m + 1].index_count

StageOrder == <<"frustum_culling", "generate_draws", "gather_instance_data", "geometry">>

(***************************************************************************)
(* C1: after instance gather, under every interleaving, the destinations   *)
(* base_offset[m] .. base_offset[m] + visible_count[m] - 1 are each        *)
(* written exactly once, by a distinct visible drawable of mesh m; none    *)
(* stays unwritten and every visible drawable of m appears exactly once.   *)
(***************************************************************************)
C1_GatherWritesEachSlotOnce ==
    Completed("gather_instance_data") =>
        /\ \A m \in MeshSlots :
              /\ \A d \in MeshRange(m) :
                    /\ d \in DrawableSlots
                    /\ Len(written_by[d]) = 1
                    /\ written_by[d][1] \in FlaggedOfMesh(m)
                    /\ visible_drawables[d] = all_drawables[written_by[d][1]]
              /\ \A gid \in FlaggedOfMesh(m) :
                    Cardinality({d \in MeshRange(m) : written_by[d] = <<gid>>}) = 1
        /\ \A d \in DrawableSlots :
              (\A m \in MeshSlots : d \notin MeshRange(m)) => written_by[d] = <<>>

\* two visible drawables of one mesh, the later invocation took the first slot
C1_Witness ==
    /\ Completed("gather_instance_data")
    /\ \E m \in MeshSlots :
          /\ visible_drawables_by_mesh_buffer[m] = 2
          /\ written_by[base_offsets_buffer[m]] = <<1>>
          /\ written_by[base_offsets_buffer[m] + 1] = <<0>>

(***************************************************************************)
(* C3: after the culling stage, under every interleaving, visible_count[m] *)
(* equals the number of flagged drawables of mesh m and the sum over all   *)
(* meshes equals the number of flagged drawables.                          *)
(***************************************************************************)
C3_VisibleCountsMatchFlags ==
    Completed("frustum_culling") =>
        /\ \A m \in MeshSlots :
              visible_drawables_by_mesh_buffer[m] = Cardinality(FlaggedOfMesh(m))
        /\ SumCounts(visible_drawables_by_mesh_buffer, MAX_MESHES)
              = Cardinality({gid \in DrawableSlots : Flagged(gid)})

\* both drawables of the frame incremented the same counter, in a frame that
\* follows a frame which left flags and counts behind
C3_Witness ==
    /\ Completed("frustum_culling")
    /\ InPass("generate_draws")
    /\ drawable_count = 2
    /\ \E m \in MeshSlots : visible_drawables_by_mesh_buffer[m] = 2
    /\ visible_drawables[0] # ZeroDrawable

(***************************************************************************)
(* C4: after draw-command generation the command buffer is dense: the k    *)
(* meshes with visible_count > 0 have one command each in slots 0..k-1,    *)
(* no other slot holds a command, and the draw-count buffer holds k.       *)
(***************************************************************************)
C4_DrawCommandsAreDense ==
    Completed("generate_draws") =>
        LET k == Cardinality(MeshesWithVisible)
        IN /\ draw_commands_count_buffer = k
           /\ \A m \in MeshesWithVisible :
                 Cardinality({i \in 0 .. k - 1 : IsCommandOf(draw_commands_buffer[i], m)}) = 1
           /\ \A i \in 0 .. k - 1 :
                 \E m \in MeshesWithVisible : IsCommandOf(draw_commands_buffer[i], m)
           /\ \A i \in MeshSlots : i >= k => draw_commands_buffer[i] = ZeroCommand

\* only the second mesh is visible: its command sits in slot 0
C4_Witness ==
    /\ Completed("generate_draws")
    /\ visible_drawables_by_mesh_buffer[0] = 0
    /\ visible_drawables_by_mesh_buffer[1] > 0
    /\ IsCommandOf(draw_commands_buffer[0], 1)
    /\ draw_commands_count_buffer = 1

(***************************************************************************)
(* C5: at the end of the compute sequence, for every emitted draw command  *)
(* of mesh m and every instance_index below its instance_count, the record *)
(* at first_instance + instance_index of the visible-drawable buffer is a  *)
(* drawable of the current frame that was marked visible and has mesh m.   *)
(***************************************************************************)
C5_DrawnRecordsAreVisibleFrameDrawables ==
    Completed("gather_instance_data") =>
        \A i \in 0 .. draw_commands_count_buffer - 1 :
            \A instance_index \in 0 .. draw_commands_buffer[i].instance_count - 1 :
                LET at == draw_commands_buffer[i].first_instance + instance_index
                IN /\ at \in DrawableSlots
                   /\ \E gid \in 0 .. drawable_count - 1 :
                         /\ Flagged(gid)
                         /\ all_drawables[gid] = visible_drawables[at]
                         /\ IsCommandOf(draw_commands_buffer[i],
                                        all_drawables[gid].primitive_index)

(***************************************************************************)
(* C9: the stages of a frame run in strict sequence on one encoder:        *)
(* culling, then draw-command generation, then instance gather, then the   *)
(* indirect draw; a stage runs only after the one before it has finished.  *)
(***************************************************************************)
C9_StagesRunInStrictSequence ==
    /\ Len(finished) <= Len(StageOrder)
    /\ \A k \in 1 .. Len(finished) : finished[k] = StageOrder[k]
    /\ (Executing /\ Current.op \in {"compute_pass", "render_pass"}) =>
          Current.buffer = StageOrder[Len(finished) + 1]
    /\ cpu = "recorded" =>
          SelectSeq(encoder, LAMBDA c : c.op # "clear_buffer")
             = [k \in 1 .. 4 |->
                   IF k = 4 THEN RenderPass(StageOrder[k])
                   ELSE ComputePass(StageOrder[k],
                                    IF k = 2 THEN 1
                                    ELSE DivCeil(drawable_count, WORKGROUP_SIZE))]
    /\ done # {} => (Executing /\ Current.op = "compute_pass")

\* instance gather is running and has written a record
C9_Witness ==
    /\ InPass("gather_instance_data")
    /\ done # {}
    /\ \E d \in DrawableSlots : written_by[d] # <<>>
    /\ finished = <<"frustum_culling", "generate_draws">>

(***************************************************************************)
(* C10: whatever the previous frame left behind, when the culling stage    *)
(* starts the visibility flags, the visible counts, the write cursors, the *)
(* draw-command buffer and the draw-count buffer are all zero.             *)
(***************************************************************************)
C10_BuffersZeroWhenCullingStarts ==
    (InPass("frustum_culling") /\ done = {}) =>
        /\ \A d \in DrawableSlots : drawable_visibility_buffer[d] = 0
        /\ \A m \in MeshSlots :
              /\ visible_drawables_by_mesh_buffer[m] = 0
              /\ drawable_local_indices_buffer[m] = 0
              /\ draw_commands_buffer[m] = ZeroCommand
        /\ draw_commands_count_buffer = 0

\* culling starts in a frame that follows a frame with two draw commands
C10_Witness ==
    /\ InPass("frustum_culling")
    /\ done = {}
    /\ base_offsets_buffer[1] > 0
    /\ visible_drawables[0] # ZeroDrawable
    /\ visible_drawables[1].primitive_index = 1

(***************************************************************************)
(* C11: after draw-command generation base_offset[m] is the sum of         *)
(* visible_count[k] over the mesh slots k < m, so the ranges               *)
(* [base_offset[m], base_offset[m] + visible_count[m]) of distinct meshes  *)
(* are pairwise disjoint and together cover exactly 0 .. total - 1, total  *)
(* being the number of drawables the culling stage marked visible.         *)
(***************************************************************************)
C11_BaseOffsetsArePrefixSums ==
    Completed("generate_draws") =>
        /\ \A m \in MeshSlots :
              base_offsets_buffer[m] = SumCounts(visible_drawables_by_mesh_buffer, m)
        /\ \A m1, m2 \in MeshSlots :
              m1 # m2 => MeshRange(m1) \cap MeshRange(m2) = {}
        /\ UNION {MeshRange(m) : m \in MeshSlots}
              = 0 .. Cardinality({gid \in DrawableSlots : Flagged(gid)}) - 1

\* both meshes have visible drawables: the second range starts where the first ends
C11_Witness ==
    /\ Completed("generate_draws")
    /\ visible_drawables_by_mesh_buffer[0] > 0
    /\ visible_drawables_by_mesh_buffer[1] > 0
    /\ base_offsets_buffer[1] = visible_drawables_by_mesh_buffer[0]
    /\ base_offsets_buffer[0] = 0

(***************************************************************************)
(* C12: every emitted draw command of mesh m has index_count = m's index   *)
(* count, instance_count = visible_count[m], first_index = m's first-index *)
(* offset, base_vertex = m's vertex offset, first_instance = base_offset[m]*)
(***************************************************************************)
C12_DrawCommandFields ==
    Completed("generate_draws") =>
        \A i \in 0 .. draw_commands_count_buffer - 1 :
            /\ i \in MeshSlots
            /\ \E m \in MeshIndices :
                  /\ draw_commands_buffer[i].index_count = MeshTable[m + 1].index_count
                  /\ draw_commands_buffer[i].instance_count
                        = visible_drawables_by_mesh_buffer[m]
                  /\ draw_commands_buffer[i].first_index = MeshTable[m + 1].first_index
                  /\ draw_commands_buffer[i].base_vertex = MeshTable[m + 1].vertex_offset
                  /\ draw_commands_buffer[i].first_instance = base_offsets_buffer[m]

\* the command of the second mesh: 6 indices from index 10, vertices from 4,
\* instances from the end of the first mesh's range
C12_Witness ==
    /\ Completed("generate_draws")
    /\ draw_commands_count_buffer = 2
    /\ \E i \in 0 .. 1 :
          /\ draw_commands_buffer[i].index_count = 6
          /\ draw_commands_buffer[i].first_index = 10
          /\ draw_commands_buffer[i].base_vertex = 4
          /\ draw_commands_buffer[i].instance_count = 1
          /\ draw_commands_buffer[i].first_instance > 0

(***************************************************************************)
(* Reference notions of the end-to-end properties                          *)
(***************************************************************************)
\* the drawable passes the frustum test against the frame's frustum
PassesFrustumTest(drawable) ==
    LET info == MeshTable[drawable.primitive_index + 1]
    IN IntersectsFrustumTransformed(info.aabb_min, info.aabb_max,
                                    frustum_buffer, drawable.model_matrix)

\* indices of the drawables of the current frame
FrameIndices == 0 .. drawable_count - 1

\* the drawables of the current frame that pass the frustum test
FramePassing ==
    {gid \in FrameIndices \cap DrawableSlots : PassesFrustumTest(all_drawables[gid])}

FramePassingOfMesh(m) ==
    {gid \in FramePassing : all_drawables[gid].primitive_index = m}

FrameOfMesh(m) ==
    {gid \in FrameIndices \cap DrawableSlots : all_drawables[gid].primitive_index = m}

\* sum of instance_count over the commands in slots 0 .. n - 1
RECURSIVE SumInstanceCounts(_)
SumInstanceCounts(n) ==
    IF n = 0 THEN 0
    ELSE SumInstanceCounts(n - 1) + draw_commands_buffer[n - 1].instance_count

\* destinations instance gather wrote in this frame
GatheredSlots == {d \in DrawableSlots : written_by[d] # <<>>}

(***************************************************************************)
(* C13: end to end over one frame, the sum of instance_count over the      *)
(* emitted draw commands equals the number of drawables that pass the      *)
(* frustum test and the number of records instance gather wrote; with      *)
(* meshes A and B, 3 visible drawables of A and 1 visible plus 1 culled    *)
(* drawable of B, there are 2 draw commands with instance counts 3 and 1   *)
(* and 4 gathered records.                                                 *)
(***************************************************************************)
C13_EndToEndCounts ==
    Completed("gather_instance_data") =>
        /\ SumInstanceCounts(draw_commands_count_buffer) = Cardinality(FramePassing)
        /\ Cardinality(GatheredSlots) = Cardinality(FramePassing)
        /\ ( /\ drawable_count = 5
             /\ Cardinality(FrameOfMesh(0)) = 3
             /\ Cardinality(FramePassingOfMesh(0)) = 3
             /\ Cardinality(FrameOfMesh(1)) = 2
             /\ Cardinality(FramePassingOfMesh(1)) = 1 )
           => /\ draw_commands_count_buffer = 2
              /\ \E i \in 0 .. 1 :
                    /\ IsCommandOf(draw_commands_buffer[i], 0)
                    /\ draw_commands_buffer[i].instance_count = 3
              /\ \E i \in 0 .. 1 :
                    /\ IsCommandOf(draw_commands_buffer[i], 1)
                    /\ draw_commands_buffer[i].instance_count = 1
              /\ Cardinality(GatheredSlots) = 4

\* the scenario with a frustum that does not hold the origin: the commands
\* have instance counts 3 and 1 and four records are gathered
C13_ScenarioMet ==
    /\ Completed("gather_instance_data")
    /\ drawable_count = 5
    /\ Cardinality(FramePassingOfMesh(0)) = 3
    /\ Cardinality(FramePassingOfMesh(1)) = 1
    /\ draw_commands_count_buffer = 2
    /\ SumInstanceCounts(2) = 4
    /\ Cardinality(GatheredSlots) = 4

\* the scenario with a frustum that holds the origin: the never-written
\* record behind the five drawables is counted for mesh A
C13_ScenarioMissed ==
    /\ Completed("gather_instance_data")
    /\ drawable_count = 5
    /\ Cardinality(FramePassingOfMesh(0)) = 3
    /\ Cardinality(FramePassingOfMesh(1)) = 1
    /\ \E i \in 0 .. 1 :
          /\ IsCommandOf(draw_commands_buffer[i], 0)
          /\ draw_commands_buffer[i].instance_count = 4
    /\ Cardinality(GatheredSlots) = 5

(***************************************************************************)
(* What a frame with the current drawable list and frustum produces when   *)
(* no frame ran before it, i.e. on buffers as they are created             *)
(***************************************************************************)
FreshRecord(gid) ==
    IF gid < drawable_count THEN all_drawables[gid] ELSE ZeroDrawable

FreshFlagged ==
    {gid \in DrawableInvocations(DivCeil(drawable_count, WORKGROUP_SIZE)) :
        PassesFrustumTest(FreshRecord(gid))}

FreshFlaggedOfMesh(m) ==
    {gid \in FreshFlagged : FreshRecord(gid).primitive_index = m}

FreshCounts == [m \in MeshSlots |-> Cardinality(FreshFlaggedOfMesh(m))]

FreshCommands ==
    {DrawCommand(m, FreshCounts[m], SumCounts(FreshCounts, m)) :
        m \in {k \in MeshIndices : FreshCounts[k] > 0}}

(***************************************************************************)
(* C14: each frame recomputes independently of the frames before it: two   *)
(* executions whose current frame has the same drawable list, mesh table   *)
(* and frustum end the frame with the same visibility flags, visible       *)
(* counts, base offsets, draw count, set of draw commands and, per mesh    *)
(* range, multiset of gathered records.  The execution in which the frame  *)
(* is the first one is among them, so every frame must end as that one.    *)
(***************************************************************************)
C14_FrameResultIgnoresEarlierFrames ==
    Completed("gather_instance_data") =>
        /\ \A gid \in DrawableSlots : Flagged(gid) <=> gid \in FreshFlagged
        /\ visible_drawables_by_mesh_buffer = FreshCounts
        /\ \A m \in MeshSlots : base_offsets_buffer[m] = SumCounts(FreshCounts, m)
        /\ draw_commands_count_buffer = Cardinality(FreshCommands)
        /\ {draw_commands_buffer[i] : i \in 0 .. draw_commands_count_buffer - 1}
              = FreshCommands
        /\ \A m \in MeshSlots : \A gid \in FreshFlaggedOfMesh(m) :
              Cardinality({d \in MeshRange(m) \cap DrawableSlots :
                              visible_drawables[d] = FreshRecord(gid)})
                 = Cardinality({g \in FreshFlaggedOfMesh(m) :
                                   FreshRecord(g) = FreshRecord(gid)})

\* a first frame: nothing was ever written behind the frame's drawables
C14_FirstFrameEnds ==
    /\ Completed("gather_instance_data")
    /\ drawable_count = 1
    /\ \A gid \in DrawableSlots : gid >= drawable_count => all_drawables[gid] = ZeroDrawable
    /\ \A gid \in DrawableSlots : Flagged(gid) <=> gid \in FreshFlagged

(***************************************************************************)
(* C15: after update_from_scene the drawable list holds exactly one record *)
(* per pair (object, primitive) with the object enabled and referencing an *)
(* existing model and the primitive belonging to that model, carrying the  *)
(* object's current world matrix, the primitive's mesh-table index and its *)
(* material index; nothing of an earlier frame remains, and disabled or    *)
(* mesh-less objects contribute no record.                                 *)
(***************************************************************************)
\* the pairs (object, primitive) that are to be drawn
PrimitivePositions ==
    UNION {1 .. Len(SceneModels[m]) : m \in 1 .. Len(SceneModels)}

DrawnPairs ==
    {pair \in ObjectIds \X PrimitivePositions :
        /\ objects[pair[1]].enabled
        /\ objects[pair[1]].model_id \in 1 .. Len(SceneModels)
        /\ pair[2] \in 1 .. Len(SceneModels[objects[pair[1]].model_id])}

RecordOfPair(pair) ==
    [model_matrix |-> objects[pair[1]].transform.world_matrix,
     primitive_index |-> SceneModels[objects[pair[1]].model_id][pair[2]][1],
     material_id |-> SceneModels[objects[pair[1]].model_id][pair[2]][2]]

C15_DrawablesAreTheEnabledPrimitives ==
    pc = "frame_end" =>
        /\ Len(drawables) = Cardinality(DrawnPairs)
        /\ \A r \in Range(drawables) \cup {RecordOfPair(pair) : pair \in DrawnPairs} :
              Cardinality({k \in 1 .. Len(drawables) : drawables[k] = r})
                 = Cardinality({pair \in DrawnPairs : RecordOfPair(pair) = r})

\* a frame of a scene with a disabled object that has a model, an enabled
\* object without one and an enabled object with a model of two primitives
C15_Witness ==
    /\ pc = "frame_end"
    /\ Len(drawables) = 2
    /\ drawables[1].primitive_index # drawables[2].primitive_index
    /\ drawables[1].model_matrix # Mat4Identity
    /\ \E a, b, c \in ObjectIds :
          /\ ~objects[a].enabled /\ objects[a].model_id # 0
          /\ objects[b].enabled /\ objects[b].model_id = 0
          /\ objects[c].enabled /\ objects[c].model_id # 0

C17_MeshCapacityIsEnforced ==
    mesh_buffer.created =>
        /\ Len(ModelPrimitives(models_to_bake, 1)) <= MAX_MESHES
        /\ Len(mesh_buffer.meshes) = Len(ModelPrimitives(models_to_bake, 1))

\* the mesh table of the frames: two primitives, baked into two meshes
C17_TableOfTheFrames ==
    /\ mesh_buffer.created
    /\ mesh_buffer.meshes = MeshTable
    /\ Len(models_to_bake) = 1

(***************************************************************************)
(* Reference notions of the frustum test                                   *)
(***************************************************************************)
\* the corners of the box under test, transformed by its world matrix
TestCorners == {TransformPoint3(test_transform, test_aabb[k]) : k \in 1 .. 2}

\* the planes of the frustum of the test
TestPlanes == {FrustumPlanes(test_frustum)[p] : p \in 1 .. 2}

\* every corner lies outside one and the same plane
OutsideOnePlane ==
    \E plane \in TestPlanes :
        \A corner \in TestCorners : plane.normal * corner + plane.distance < 0

\* every corner lies inside the frustum
FullyInside ==
    \A corner \in TestCorners : test_frustum[1] <= corner /\ corner <= test_frustum[2]

Tested == test_visible # "untested"

(***************************************************************************)
(* C18: a drawable is marked not visible if and only if for at least one   *)
(* frustum plane all corners of its transformed bounding box lie outside   *)
(* that plane; so a box fully inside the frustum is marked visible and a   *)
(* box fully outside one plane is marked not visible.                      *)
(***************************************************************************)
C18_CulledIffOutsideOnePlane ==
    Tested =>
        /\ test_visible = "culled" <=> OutsideOnePlane
        /\ FullyInside => test_visible = "visible"
        /\ OutsideOnePlane => test_visible = "culled"

\* a box with one corner beyond a plane and the other inside is kept
C18_Witness ==
    /\ Tested
    /\ test_visible = "visible"
    /\ ~FullyInside
    /\ test_aabb[1] # test_aabb[2]
    /\ \E corner \in TestCorners : corner > test_frustum[2]

(***************************************************************************)
(* C19 as stated: a drawable whose mesh bounding box is zero-size          *)
(* (min = max) is never culled: it is marked visible for every frustum and *)
(* every world matrix.                                                     *)
(***************************************************************************)
C19_DegenerateBoxNeverCulled ==
    (Tested /\ test_aabb[1] = test_aabb[2]) => test_visible = "visible"

(***************************************************************************)
(* C19 amended: a zero-size bounding box is not rejected for being         *)
(* degenerate; it is marked visible exactly when its transformed point     *)
(* lies inside the frustum (planes included), and culled otherwise.        *)
(***************************************************************************)
C19_DegenerateBoxIsEnclosureTest ==
    (Tested /\ test_aabb[1] = test_aabb[2]) =>
        (test_visible = "visible" <=>
            LET point == TransformPoint3(test_transform, test_aabb[1])
            IN test_frustum[1] <= point /\ point <= test_frustum[2])

\* a point box whose point lies on a plane of the frustum is kept
C19_Witness ==
    /\ Tested
    /\ test_aabb[1] = test_aabb[2]
    /\ TransformPoint3(test_transform, test_aabb[1]) = test_frustum[2]
    /\ test_frustum[1] < test_frustum[2]
    /\ test_visible = "visible"

(***************************************************************************)
(* C20: in a frame with zero drawables, also one that follows frames with  *)
(* drawables, the compute sequence runs to its end without error and the   *)
(* indirect draw finds zero draw commands and a draw-count buffer of 0.    *)
(***************************************************************************)
C20_EmptyFrameDrawsNothing ==
    ( /\ drawable_count = 0
      /\ cpu = "submitted"
      /\ encoder = <<>> \/ Current.op = "render_pass" )
    => /\ Len(finished) >= 3
       /\ SubSeq(finished, 1, 3)
             = <<"frustum_culling", "generate_draws", "gather_instance_data">>
       /\ draw_commands_count_buffer = 0
       /\ \A m \in MeshSlots : draw_commands_buffer[m] = ZeroCommand
       /\ \A gid \in DrawableSlots : ~Flagged(gid)

\* the empty frame has ended; the frame before it drew two drawables, whose
\* records are still in the drawable buffers
C20_Witness ==
    /\ drawable_count = 0
    /\ cpu = "submitted"
    /\ encoder = <<>>
    /\ Completed("geometry")
    /\ all_drawables[1] # ZeroDrawable
    /\ visible_drawables[1] # ZeroDrawable
    /\ draw_commands_count_buffer = 0

(***************************************************************************)
(* C21: a set_object_parent(c, p) that returns removes c from the child    *)
(* list of its previous parent, sets c's parent to p, appends c to the end *)
(* of p's child list when p is given, leaves c and every transitive        *)
(* descendant of c world-dirty, and leaves the child lists of all other    *)
(* objects unchanged.                                                      *)
(***************************************************************************)
C21_Without(list, c) == SelectSeq(list, LAMBDA x : x # c)

C21_Effect(c, p) ==
    LET old == objects[c].parent_id
    IN /\ objects'[c].parent_id = p
       /\ (old # 0 /\ old # p) =>
             objects'[old].child_ids = C21_Without(objects[old].child_ids, c)
       /\ p # 0 =>
             objects'[p].child_ids =
                Append(IF p = old THEN C21_Without(objects[p].child_ids, c)
                       ELSE objects[p].child_ids, c)
       /\ \A x \in Descendants(objects', c) \cup {c} :
             objects'[x].transform.world_dirty
       /\ \A x \in ObjectIds \ {old, p} :
             objects'[x].child_ids = objects[x].child_ids

C21_SetParentRelinksAndInvalidates ==
    [][\A c \in ObjectIds, p \in ObjectIds \cup {0} :
          (SetObjectParent(c, p) /\ pc' # "crashed") => C21_Effect(c, p)]_vars

\* a propagated object with a child has been moved below a clean object that
\* was created after it: the moved pair is world-dirty, nothing else is
C21_Witness ==
    /\ pc = "mutate"
    /\ \E c \in ObjectIds, p \in ObjectIds, d \in ObjectIds :
          /\ objects[c].parent_id = p
          /\ p > c
          /\ objects[p].child_ids = <<c>>
          /\ objects[c].child_ids = <<d>>
          /\ WorldDirty(objects, c) /\ ~objects[c].transform.local_dirty
          /\ WorldDirty(objects, d) /\ ~objects[d].transform.local_dirty
          /\ ~WorldDirty(objects, p)

(***************************************************************************)
(* C22: during late-phase propagation a subtree whose root object is clean *)
(* (world_dirty = false) is skipped: no object in that subtree has its     *)
(* world matrix recomputed or its flags changed by the pass.               *)
(***************************************************************************)
C22_CleanRootSubtreeIsSkipped ==
    [][LateUpdate =>
          \A r \in ObjectIds :
             ~WorldDirty(objects, r) =>
                \A x \in Descendants(objects, r) \cup {r} :
                   objects'[x].transform = objects[x].transform]_vars

(***************************************************************************)
(* C22, amended: late-phase propagation skips each clean object, leaving   *)
(* its matrices and flags as they were, but still descends into the        *)
(* children of a clean object; only a dirty object is recomputed, and it   *)
(* is clean afterwards.                                                    *)
(***************************************************************************)
C22_CleanObjectIsSkipped ==
    [][LateUpdate =>
          \A x \in ObjectIds :
             IF WorldDirty(objects, x)
             THEN /\ ~WorldDirty(objects', x)
                  /\ objects'[x].transform.has_changed_since_last_update
             ELSE objects'[x].transform = objects[x].transform]_vars

\* after a pass: a parent the pass skipped (flag still reset) above a child the
\* pass recomputed to a composed matrix
C22_Witness ==
    /\ pc = "late_done"
    /\ \E p \in ObjectIds, d \in ObjectIds :
          /\ objects[d].parent_id = p
          /\ ~objects[p].transform.has_changed_since_last_update
          /\ objects[d].transform.has_changed_since_last_update
          /\ WorldOf(objects, d) = ChainWorld(objects, d)
          /\ WorldOf(objects, d) # TrueLocal(objects, d)

(***************************************************************************)
(* C23: early_update sets the changed flag to false on every transform and *)
(* leaves local_dirty, world_dirty, the local matrix, the world matrix and *)
(* the parent/child links of every object unchanged.                       *)
(***************************************************************************)
C23_EarlyUpdateOnlyResetsChangedFlag ==
    [][EarlyUpdate =>
          /\ Len(objects') = Len(objects)
          /\ \A x \in ObjectIds :
                /\ ~objects'[x].transform.has_changed_since_last_update
                /\ objects'[x].transform.local_dirty = objects[x].transform.local_dirty
                /\ objects'[x].transform.world_dirty = objects[x].transform.world_dirty
                /\ objects'[x].transform.local_matrix = objects[x].transform.local_matrix
                /\ objects'[x].transform.world_matrix = objects[x].transform.world_matrix
                /\ objects'[x].parent_id = objects[x].parent_id
                /\ objects'[x].child_ids = objects[x].child_ids]_vars

\* the frame has started over a linked pair: the parent is still dirty, its
\* world matrix still stale, and the changed flags of both are reset
C23_Witness ==
    /\ pc = "mutate"
    /\ \E x \in ObjectIds, y \in ObjectIds :
          /\ objects[y].parent_id = x
          /\ objects[x].transform.local_dirty
          /\ objects[x].transform.world_dirty
          /\ ~objects[x].transform.has_changed_since_last_update
          /\ objects[x].transform.world_matrix # TrueLocal(objects, x)
          /\ ~objects[y].transform.has_changed_since_last_update

(***************************************************************************)
(* C24: get_local_matrix on a transform whose local_dirty flag is set      *)
(* recomputes the local matrix from the current translation, rotation and  *)
(* scale, clears local_dirty and leaves world_dirty set, whatever          *)
(* world_dirty was before; the matrix a call returns always stands for the *)
(* latest translation, rotation and scale.                                 *)
(***************************************************************************)
C24_LocalOf(tr) == FromScaleRotationTranslation(tr.scale, tr.rotation, tr.translation)

C24_LazyLocalMatrix ==
    [][TransformGetLocalMatrix =>
          /\ local_matrix_read'.matrix = C24_LocalOf(unit_transform)
          /\ unit_transform.local_dirty =>
                /\ unit_transform'.local_matrix = C24_LocalOf(unit_transform)
                /\ ~unit_transform'.local_dirty
                /\ unit_transform'.world_dirty
          /\ unit_transform'.translation = unit_transform.translation
          /\ unit_transform'.rotation = unit_transform.rotation
          /\ unit_transform'.scale = unit_transform.scale]_vars

\* a read found local_dirty set and world_dirty clear, replaced a cached matrix
\* and left the world flag set
C24_Witness ==
    /\ local_matrix_read.called
    /\ local_matrix_read.local_dirty
    /\ ~local_matrix_read.world_dirty
    /\ local_matrix_read.matrix # Mat4Identity
    /\ unit_transform.local_matrix = local_matrix_read.matrix
    /\ unit_transform.world_dirty
    /\ ~unit_transform.local_dirty

(***************************************************************************)
(* C25: at the end of a frame (early_update, mutations, late_update) an    *)
(* object's changed flag is true if and only if its local transform was    *)
(* set during that frame or its world matrix was stored by the propagation *)
(* of that frame; set_world_matrix is invoked only by the late-phase       *)
(* propagation, and it stores the matrix, clears world_dirty and sets the  *)
(* changed flag.                                                           *)
(***************************************************************************)
\* set_world_matrix has run on x in this step: it alone clears world_dirty
C25_Stored(x) == WorldDirty(objects, x) /\ ~WorldDirty(objects', x)

C25_ParentWorld(objs, x) ==
    IF objs[x].parent_id = 0 THEN Mat4Identity ELSE WorldOf(objs, objs[x].parent_id)

C25_ChangedFlagAtEndOfFrame ==
    [][/\ LateUpdate =>
             \A x \in ObjectIds :
                /\ objects'[x].transform.has_changed_since_last_update
                      <=> (x \in set_this_frame \/ C25_Stored(x))
                /\ C25_Stored(x) =>
                      WorldOf(objects', x) =
                         MatMul(C25_ParentWorld(objects', x),
                                objects'[x].transform.local_matrix)
       /\ (\E x \in ObjectIds :
              C25_Stored(x) \/ WorldOf(objects', x) # WorldOf(objects, x))
             => LateUpdate]_vars

\* end of a later frame: one object was set in the frame, its child was only
\* recomputed by the pass, a third object was left alone
C25_Witness ==
    /\ pc = "late_done"
    /\ \E x \in ObjectIds, y \in ObjectIds, z \in ObjectIds :
          /\ x \in set_this_frame
          /\ objects[x].transform.has_changed_since_last_update
          /\ objects[y].parent_id = x /\ y \notin set_this_frame
          /\ objects[y].transform.has_changed_since_last_update
          /\ z \notin set_this_frame
          /\ ~objects[z].transform.has_changed_since_last_update

(***************************************************************************)
(* C26: the geometry pass issues multi_draw_indexed_indirect_count with    *)
(* the draw-count buffer exactly when the adapter supports indirect draw   *)
(* counts, and multi_draw_indexed_indirect with the maximum mesh count     *)
(* otherwise; in both variants the instances drawn in a frame are those of *)
(* the commands in slots [0, draw count), because every command slot at or *)
(* beyond the draw count has instance_count = 0.                           *)
(***************************************************************************)
C26_SupportsDrawCount == "MULTI_DRAW_INDIRECT_COUNT" \in adapter_features

\* the instances of the commands in slots [0, draw count)
C26_InstancesBelowDrawCount ==
    UNION {DrawnInstances(draw_commands_buffer[k]) :
              k \in {j \in MeshSlots : j < draw_commands_count_buffer}}

C26_BothDrawVariantsDrawTheSame ==
    [][/\ RenderIndirect =>
             LET call == encoder'[Len(encoder')].draw
             IN /\ call.variant = IF C26_SupportsDrawCount
                                  THEN "multi_draw_indexed_indirect_count"
                                  ELSE "multi_draw_indexed_indirect"
                /\ call.max_count = MAX_MESHES
       /\ ExecuteRenderPass =>
             /\ drawn' = C26_InstancesBelowDrawCount
             /\ \A k \in MeshSlots :
                   k >= draw_commands_count_buffer =>
                      draw_commands_buffer[k].instance_count = 0]_vars

\* an adapter without the feature has drawn a frame with one command in a
\* buffer of two slots, after a frame that had filled both
C26_Witness ==
    /\ ~C26_SupportsDrawCount
    /\ Len(finished) = 4
    /\ draw_commands_count_buffer = 1
    /\ draw_commands_count_buffer < MAX_MESHES
    /\ drawn # {}
    /\ drawn = C26_InstancesBelowDrawCount
    /\ base_offsets_buffer[1] > 0

(***************************************************************************)
(* C27: each record of the drawable storage buffers has a 96-byte stride   *)
(* made of a 64-byte world matrix, a u32 mesh index, a u32 material index  *)
(* and 8 bytes of padding, so record i starts at byte offset 96 * i and    *)
(* the sum of the field sizes equals the stride.                           *)
(***************************************************************************)
RECURSIVE C27_SumOfFieldSizes(_, _)
C27_SumOfFieldSizes(fields, k) ==
    IF k = 0 THEN 0 ELSE C27_SumOfFieldSizes(fields, k - 1) + fields[k].size

C27_FieldsAre(fields) ==
    [k \in 1 .. Len(fields) |-> fields[k].size] = <<64, 4, 4, 8>>

C27_LayoutWithStride(stride) ==
    LET fields == DrawableFields(byte_upload.mat4_align)
    IN /\ C27_FieldsAre(fields)
       /\ SizeOfDrawable(byte_upload.mat4_align) = stride
       /\ C27_SumOfFieldSizes(fields, Len(fields)) = stride
       /\ byte_upload.written =>
             /\ Len(byte_upload.record_offsets) = byte_upload.count
             /\ \A i \in 1 .. byte_upload.count :
                   byte_upload.record_offsets[i] =
                      stride * (byte_upload.start_index + (i - 1))

C27_StrideIs96Bytes == C27_LayoutWithStride(96)

(***************************************************************************)
(* C27, amended: each record of the drawable storage buffers has an        *)
(* 80-byte stride made of a 64-byte world matrix, a u32 mesh index, a u32  *)
(* material index and 8 bytes of padding, so record i starts at byte       *)
(* offset 80 * i and the sum of the field sizes equals the stride.         *)
(***************************************************************************)
C27_StrideIs80Bytes == C27_LayoutWithStride(80)

\* three records have been written behind two others, in a build where the
\* matrix is 16-byte aligned
C27_Witness ==
    /\ byte_upload.written
    /\ byte_upload.mat4_align = 16
    /\ byte_upload.start_index = 2
    /\ byte_upload.count = 3
    /\ byte_upload.record_offsets = <<160, 240, 320>>

(***************************************************************************)
(* C28: records of the GPU drawable buffer at an index greater than or     *)
(* equal to the current frame's drawable count (left by an earlier frame   *)
(* with more drawables, or never written) are never marked visible, never  *)
(* counted in a per-mesh visible count and never gathered in the current   *)
(* frame, although the dispatch rounds the invocation count up to a        *)
(* multiple of the workgroup size and the upload writes only the first     *)
(* count records.                                                          *)
(***************************************************************************)
\* the flagged drawables of the current frame that reference mesh m
C28_FrameFlaggedOfMesh(m) ==
    {gid \in FrameIndices \cap DrawableSlots :
        Flagged(gid) /\ all_drawables[gid].primitive_index = m}

C28_RecordsBeyondTheCountAreIgnored ==
    /\ (InPass("frustum_culling") \/ Completed("frustum_culling")) =>
          \A d \in DrawableSlots : d >= drawable_count => ~Flagged(d)
    /\ Completed("frustum_culling") =>
          \A m \in MeshSlots :
             visible_drawables_by_mesh_buffer[m] = Cardinality(C28_FrameFlaggedOfMesh(m))
    /\ \A d \in DrawableSlots :
          \A k \in 1 .. Len(written_by[d]) : written_by[d][k] < drawable_count

(***************************************************************************)
(* C29: in every state reachable through the Scene API the set of          *)
(* world-dirty objects is closed downward: if an object is world-dirty     *)
(* then every transitive descendant of it is world-dirty (a clean object   *)
(* has only clean ancestors).                                              *)
(***************************************************************************)
C29_DirtySetIsClosedDownward ==
    Running =>
        \A x \in ObjectIds :
            WorldDirty(objects, x) =>
                \A d \in Descendants(objects, x) : WorldDirty(objects, d)

\* a propagated chain of three in which a setter has dirtied the middle object:
\* the root is clean, the middle object and its child are dirty
C29_Witness ==
    /\ Running
    /\ \E p \in ObjectIds, x \in ObjectIds, d \in ObjectIds :
          /\ objects[x].parent_id = p
          /\ objects[d].parent_id = x
          /\ ~WorldDirty(objects, p)
          /\ WorldDirty(objects, x) /\ objects[x].transform.local_dirty
          /\ WorldDirty(objects, d) /\ ~objects[d].transform.local_dirty

(***************************************************************************)
(* C30: in every state reachable through the Scene API a transform whose   *)
(* local_dirty flag is set also has its world_dirty flag set; no sequence  *)
(* of setters, early_update and late_update produces a transform that is   *)
(* local-dirty but world-clean.                                            *)
(***************************************************************************)
C30_LocalDirtyImpliesWorldDirty ==
    Running =>
        \A x \in ObjectIds :
            objects[x].transform.local_dirty => objects[x].transform.world_dirty

\* in a later frame a setter has made one object local-dirty next to an object
\* that propagation left clean in both flags
C30_Witness ==
    /\ pc = "mutate"
    /\ \E x \in ObjectIds, y \in ObjectIds :
          /\ objects[x].transform.local_dirty
          /\ objects[x].transform.world_dirty
          /\ objects[x].transform.local_matrix # TrueLocal(objects, x)
          /\ ~objects[y].transform.local_dirty
          /\ ~objects[y].transform.world_dirty
          /\ objects[y].transform.local_matrix = TrueLocal(objects, y)
          /\ objects[y].transform.local_matrix # Mat4Identity

(***************************************************************************)
(* C31: after any sequence of add_object and set_object_parent calls the   *)
(* parent and child links agree: object c appears in the child list of p   *)
(* if and only if c's parent id is p, and c appears there exactly once.    *)
(***************************************************************************)
C31_Occurrences(list, c) == Cardinality({i \in 1 .. Len(list) : list[i] = c})

C31_ParentAndChildLinksAgree ==
    \A c \in ObjectIds :
        /\ objects[c].parent_id \in ObjectIds \cup {0}
        /\ \A p \in ObjectIds :
              /\ (c \in Range(objects[p].child_ids)) <=> (objects[c].parent_id = p)
              /\ objects[c].parent_id = p
                    => C31_Occurrences(objects[p].child_ids, c) = 1

\* a child list that is out of creation order: its first entry was taken out
\* by set_object_parent and pushed again behind a younger sibling
C31_Witness ==
    /\ Running
    /\ \E p \in ObjectIds :
          /\ Len(objects[p].child_ids) >= 2
          /\ objects[p].child_ids[1] > objects[p].child_ids[2]
          /\ \A i \in 1 .. Len(objects[p].child_ids) :
                objects[objects[p].child_ids[i]].parent_id = p

(***************************************************************************)
(* C32: in every scene reachable through add_object and set_object_parent  *)
(* the parent relation is acyclic (following parent ids from any object    *)
(* reaches an object without a parent), so invalidate_object_hierarchy and *)
(* late_update always terminate and late_update reaches every object from  *)
(* some root.                                                              *)
(***************************************************************************)
\* following parent ids from x arrives at an object without a parent within
\* the given number of steps
RECURSIVE C32_ReachesRoot(_, _, _)
C32_ReachesRoot(objs, x, steps) ==
    IF objs[x].parent_id = 0 THEN TRUE
    ELSE IF steps = 0 THEN FALSE
    ELSE C32_ReachesRoot(objs, objs[x].parent_id, steps - 1)

C32_AcyclicAndTraversalsTerminate ==
    /\ \A x \in ObjectIds : C32_ReachesRoot(objects, x, Len(objects))
    /\ \A x \in ObjectIds : ~Diverges(objects, x)
    /\ Running

(***************************************************************************)
(* C33: late_update is idempotent: running it a second time with no        *)
(* mutation in between changes no world matrix, no dirty flag and no       *)
(* changed-since-last-frame flag, and after any late_update every object   *)
(* in the scene has local_dirty = false and world_dirty = false.           *)
(***************************************************************************)
C33_LateUpdateIsIdempotent ==
    pc = "late_done" =>
        /\ UpdateTransforms(objects) = objects
        /\ \A x \in ObjectIds :
              /\ ~objects[x].transform.local_dirty
              /\ ~objects[x].transform.world_dirty

\* after the late_update of a later frame: a child below a parent with a
\* world matrix other than the identity was recomputed in this frame, another
\* object was not, and a second pass would change nothing
C33_Witness ==
    /\ pc = "late_done"
    /\ UpdateTransforms(objects) = objects
    /\ \E x \in ObjectIds, y \in ObjectIds, z \in ObjectIds :
          /\ objects[y].parent_id = x
          /\ WorldOf(objects, x) # Mat4Identity
          /\ WorldOf(objects, y) # WorldOf(objects, x)
          /\ objects[y].transform.has_changed_since_last_update
          /\ ~objects[z].transform.has_changed_since_last_update

(***************************************************************************)
(* C34: across any sequence of spawn_gltf_scene calls on one Scene, two    *)
(* spawned objects refer to the same SceneModel only if their nodes        *)
(* reference the same mesh of the same glTF document, and a given mesh of  *)
(* a given document is converted to a SceneModel at most once.             *)
(***************************************************************************)
C34_ModelsSharedOnlyBySameMeshOfSameDocument ==
    /\ \A a \in 1 .. Len(gltf_objects), b \in 1 .. Len(gltf_objects) :
          (gltf_objects[a].model_id # 0
              /\ gltf_objects[a].model_id = gltf_objects[b].model_id)
             => /\ gltf_objects[a].document = gltf_objects[b].document
                /\ gltf_objects[a].mesh = gltf_objects[b].mesh
    /\ \A i \in 1 .. Len(scene_models), j \in 1 .. Len(scene_models) :
          scene_models[i] = scene_models[j] => i = j

(***************************************************************************)
(* C35: after InstanceGroup::rebuild_and_upload there is exactly one batch *)
(* per non-empty model group, batches are ordered by model id, each        *)
(* batch's start_index equals the sum of the instance counts of the        *)
(* batches before it (so batch ranges are disjoint and contiguous from 0), *)
(* each instance_count equals the size of its model group, and             *)
(* needs_rebuild is false.                                                 *)
(***************************************************************************)
C35_NonEmptyGroups(group) ==
    {k \in DOMAIN group.model_groups : group.model_groups[k] # <<>>}

RECURSIVE C35_CountBefore(_, _)
C35_CountBefore(batches, i) ==
    IF i = 1 THEN 0
    ELSE C35_CountBefore(batches, i - 1) + batches[i - 1].instance_count

C35_BatchesMatchGroups(group) ==
    LET batches == group.batches
    IN /\ Len(batches) = Cardinality(C35_NonEmptyGroups(group))
       /\ {batches[i].render_model_id : i \in 1 .. Len(batches)}
             = C35_NonEmptyGroups(group)
       /\ \A i \in 1 .. Len(batches), j \in 1 .. Len(batches) :
             i < j => batches[i].render_model_id < batches[j].render_model_id
       /\ \A i \in 1 .. Len(batches) :
             /\ batches[i].start_index = C35_CountBefore(batches, i)
             /\ batches[i].instance_count
                   = Len(group.model_groups[batches[i].render_model_id])
       /\ ~group.needs_rebuild

C35_RebuildYieldsContiguousBatches ==
    [][InstanceGroupRebuildAndUpload => C35_BatchesMatchGroups(dynamic_group')]_vars

\* a rebuilt group with two batches, the second starting behind the two
\* instances of the first, and the instances uploaded at those indices
C35_Witness ==
    /\ C35_BatchesMatchGroups(dynamic_group)
    /\ Len(dynamic_group.batches) = 2
    /\ dynamic_group.batches[1].instance_count = 2
    /\ dynamic_group.batches[2].start_index = 2
    /\ dynamic_group.storage_buffer.data[2] = dynamic_group.model_groups[2][1]
    /\ dynamic_group.storage_buffer.data[2] # dynamic_group.storage_buffer.data[1]

(***************************************************************************)
(* C36: static instances are rebuilt only when explicitly requested: a     *)
(* call of InstanceManager::update_from_scene made while the static        *)
(* group's needs_rebuild flag is false leaves the static group's instances *)
(* and batches unchanged whatever changed in the scene, while the dynamic  *)
(* group is regathered and re-uploaded on every call; after any call the   *)
(* static needs_rebuild flag is false until request_static_rebuild is      *)
(* called.                                                                 *)
(***************************************************************************)
\* the instance data of the enabled objects of a type and render model, in
\* arena order
C36_InstancesOf(objs, instance_type, k) ==
    LET sel == SelectSeq(objs, LAMBDA o : /\ o.enabled
                                          /\ o.instance_type = instance_type
                                          /\ o.render_model = k)
    IN [i \in 1 .. Len(sel) |-> sel[i].world_matrix]

\* the group holds exactly the instances of the scene, one model group per
\* render model in use
C36_GatheredFrom(group, objs) ==
    /\ DOMAIN group.model_groups
          = {k \in RenderModelIds : C36_InstancesOf(objs, group.instance_type, k) # <<>>}
    /\ \A k \in DOMAIN group.model_groups :
          group.model_groups[k] = C36_InstancesOf(objs, group.instance_type, k)

\* the storage buffer holds every model group at the range of its batch
C36_Uploaded(group) ==
    /\ Len(group.batches) = Cardinality(DOMAIN group.model_groups)
    /\ \A b \in 1 .. Len(group.batches) :
          LET batch == group.batches[b]
              instances == group.model_groups[batch.render_model_id]
          IN /\ batch.instance_count = Len(instances)
             /\ \A i \in 1 .. Len(instances) :
                   /\ batch.start_index + i - 1 < group.storage_buffer.capacity
                   /\ group.storage_buffer.data[batch.start_index + i - 1] = instances[i]

C36_StaticRebuiltOnlyOnRequest ==
    [][/\ InstanceManagerUpdateFromScene =>
             /\ ~static_group.needs_rebuild => static_group' = static_group
             /\ C36_GatheredFrom(dynamic_group', inst_objects)
             /\ C36_Uploaded(dynamic_group')
             /\ ~static_group'.needs_rebuild
       /\ (~static_group.needs_rebuild /\ static_group'.needs_rebuild)
             => RequestStaticRebuild]_vars

\* the manager has been updated since the second object was spawned (its
\* instance is in the dynamic group), yet the static object spawned before it
\* is missing from the static group, whose flag is clear
C36_Witness ==
    /\ ~static_group.needs_rebuild
    /\ Len(inst_objects) = 2
    /\ inst_objects[1].instance_type = "Static" /\ inst_objects[1].enabled
    /\ inst_objects[1].render_model # 0
    /\ inst_objects[2].instance_type = "Dynamic" /\ inst_objects[2].enabled
    /\ inst_objects[2].render_model # 0
    /\ DOMAIN static_group.model_groups = {}
    /\ static_group.batches = <<>>
    /\ C36_GatheredFrom(dynamic_group, inst_objects)
    /\ C36_Uploaded(dynamic_group)

(***************************************************************************)
(* C37: in the change-tracking instance manager, a frame in which no       *)
(* object's transform changed and the set of models with their instance    *)
(* counts is the same as in the previous frame selects                     *)
(* UpdateStrategy::None (no upload), a frame in which that set changed     *)
(* selects FullRebuild, and otherwise Incremental uploads only the groups  *)
(* whose transforms changed.                                               *)
(***************************************************************************)
\* the models in use in the scene with their instance counts, by model index
C37_Count(objs, k) == Cardinality({i \in 1 .. Len(objs) : objs[i].render_model = k})

RECURSIVE C37_LayoutFrom(_, _)
C37_LayoutFrom(objs, keys) ==
    IF keys = {} THEN <<>>
    ELSE LET k == MinKey(keys)
         IN (IF C37_Count(objs, k) > 0 THEN << <<k, C37_Count(objs, k)>> >> ELSE <<>>)
            \o C37_LayoutFrom(objs, keys \ {k})

C37_Layout(objs) == C37_LayoutFrom(objs, RenderModelIds)

\* the models one of whose objects reports a changed transform
C37_ChangedModels(objs) ==
    {objs[i].render_model : i \in {j \in 1 .. Len(objs) :
                                      objs[j].render_model # 0 /\ objs[j].has_changed}}

\* the models whose batch range a write_buffer call of the update starts at
C37_UploadedModels(manager, written) ==
    {manager.batches[b].render_model_id :
        b \in {c \in 1 .. Len(manager.batches) :
                  \E u \in 1 .. Len(written) :
                     written[u].start_index = manager.batches[c].start_index}}

C37_StrategyFollowsChanges ==
    [][TrackingUpdateFromScene =>
          LET same == C37_Layout(track_objects) = tracker.last_batch_layout_hash
              changed == C37_ChangedModels(track_objects)
          IN /\ (same /\ changed = {})
                   => (update_strategy'.kind = "None" /\ uploads' = <<>>)
             /\ ~same => update_strategy'.kind = "FullRebuild"
             /\ (same /\ changed # {})
                   => /\ update_strategy'.kind = "Incremental"
                      /\ C37_UploadedModels(tracker', uploads') = changed]_vars

\* C38: a recompilation that fails on the watcher thread leaves the pipeline
\* cache and the channel as they were, so the pipeline installed before stays;
\* the cache changes only in load_pending_shaders, which receives the messages
\* in the order they were sent, so that when it returns every pipeline id the
\* watcher has compiled holds the last pipeline compiled for it.
C38_FailedCompileKeepsAndReloadInstallsLast ==
    [][/\ ((watcher_events # <<>> /\ watcher_events' = Tail(watcher_events)
            /\ ~CompileFile(Head(watcher_events)).ok)
           => (pipeline_cache' = pipeline_cache /\ receiver' = receiver))
       /\ (pipeline_cache' # pipeline_cache
           => /\ receiver # <<>>
              /\ loader_pc' = "draining"
              /\ drained'[Len(drained')] = Head(receiver))
       /\ ((loader_pc = "draining" /\ loader_pc' = "idle")
           => \A id \in PipelineIds :
                  last_compiled[id] # 0 => pipeline_cache'[id] = last_compiled[id])
      ]_vars

\* one load_pending_shaders has received two pipelines of the same id and the
\* later one is installed, while another id whose last text failed to compile
\* still has its first pipeline
C38_Witness ==
    /\ loader_pc = "idle"
    /\ receiver = <<>>
    /\ watcher_events = <<>>
    /\ \E i, j \in 1 .. Len(drained) :
           /\ i < j
           /\ drained[i].pipeline_id = drained[j].pipeline_id
           /\ drained[i].pipeline < drained[j].pipeline
           /\ pipeline_cache[drained[j].pipeline_id] = drained[j].pipeline
           /\ \A k \in (j + 1) .. Len(drained) :
                  drained[k].pipeline_id # drained[j].pipeline_id
    /\ \E id \in PipelineIds :
           /\ ~shader_files[id].valid
           /\ shader_files[id].version > 1
           /\ last_compiled[id] = 0
           /\ pipeline_cache[id] = 1

====
